---- MODULE Spec2Model ----
(***************************************************************************)
(* mrlm-net/tracer: the network tracing engine.                            *)
(*                                                                         *)
(* One behaviour is one invocation of an entry point: tcp.TraceAddr,       *)
(* udp.TraceAddr, http.TraceURL, or a direct call of                       *)
(* netutil.ResolveAndDial.  The network (resolver, dialer, peer, the       *)
(* net/http transport and its httptrace callback goroutines) is the        *)
(* environment and is chosen nondeterministically.                         *)
(*                                                                         *)
(* Strings that the code parses are sequences of tokens: a token is a      *)
(* punctuation character or an atom standing for a run of characters       *)
(* (an IPv4 literal, an IPv6 literal, a host name, a zone, a port).        *)
(***************************************************************************)
EXTENDS Integers, Sequences, FiniteSets, TLC

\* ------------------------------------------------------------------ bounds
MaxResolved == 2
MaxHops == 2
MaxThreads == 2
MaxOps == 1
MaxCallers == 2
MaxEmits == 2

\* --------------------------------------------------------------- constants
Nil == "nil"
V4Texts == {"4a", "4b"}
V6Texts == {"6a", "6b"}
IPs == V4Texts \cup V6Texts
DefaultPort == <<"80">>
Prefs == {"v4", "v6", "V6", "auto", ""}
ErrLookup == "no such host"
ErrDial == "dial error"
DeadlineExceeded == "context deadline exceeded"

VARIABLES
    proto,      \* entry point: "tcp" | "udp" | "http" | "dial"
    cfg,        \* traceConfig after the options were applied
    addr,       \* the target string (tokens); for "dial" the host argument
    ctx,        \* the caller's context: whether it is cancelled, and where the
                \* call was when that happened
    pc,         \* position of the calling goroutine
    events,     \* every event passed to Emitter.Emit, in order
    ret,        \* the entry point's return value ("none" while running)
    uuids,      \* number of uuid.NewString() calls so far
    traceID,    \* local traceID
    connID,     \* local connID (0: not yet generated)
    parsed,     \* result of netutil.ParseAddr
    lookups,    \* number of net.DefaultResolver.LookupIP calls
    dials,      \* every Dialer.DialContext call: [network, addr, ok]
    open,       \* indices (in dials) of connections that are open
    writes,     \* number of writes on the connection
    io,         \* what the connection answered: whether the write failed, the
                \* number of reads, and (rn, rerr) of the read
    reach,      \* the resolved addresses that accept a connection
    resolved,   \* ResolveAndDial: resolved
    order,      \* ResolveAndDial: order
    idx,        \* ResolveAndDial: position of the range loop in order
    dr,         \* (conn, chosenIP, resolved, fam, derr) after the dial
    hop,        \* http: number of tracingTransport.RoundTrip calls so far
    now,        \* the clock that time.Now() reads
    start,      \* http: start
    mu,         \* http: mu, 0 when free, else the goroutine holding it
    stageStarts,\* http: stageStarts, a map from stage keys to start times
    th,         \* the transport's goroutines that deliver start/done callbacks
    req,        \* http: Header of the request the client sends next
    srv,        \* http: the server: the headers of its responses, and whether
                \* its redirects lead to another domain
    b,          \* a BufferingEmitter: mu (0 when free, else the goroutine
                \* holding it) and the slice events
    heap,       \* the backing arrays of the slices of events
    g           \* the goroutines that call the BufferingEmitter's methods

vars == <<proto, cfg, addr, ctx, pc, events, ret, uuids, traceID, connID, parsed,
          lookups, dials, open, writes, io, reach, resolved, order, idx, dr,
          hop, now, start, mu, stageStarts, th, req, srv, b, heap, g>>

inVars == <<proto, cfg, addr, ctx>>

dialVars == <<connID, parsed, lookups, dials, open, writes, io, reach, resolved,
              order, idx, dr>>

httpVars == <<hop, now, start, mu, stageStarts, th, req, srv>>

bufVars == <<b, heap, g>>

\* ----------------------------------------------------------- string model
HasColon(tok) == tok = ":" \/ tok \in V6Texts

RECURSIVE ContainsColon(_)
ContainsColon(s) ==
    IF s = <<>> THEN FALSE ELSE HasColon(Head(s)) \/ ContainsColon(Tail(s))

Contains(s, tok) == \E i \in 1..Len(s) : s[i] = tok

\* index of the last token of s that is (or holds) a colon, 0 if none
LastColon(s) ==
    IF \E i \in 1..Len(s) : HasColon(s[i])
    THEN CHOOSE i \in 1..Len(s) :
            HasColon(s[i]) /\ \A j \in (i+1)..Len(s) : ~HasColon(s[j])
    ELSE 0

\* strings.LastIndex(host, "%"): 0 if absent
LastIndex(s, tok) ==
    IF Contains(s, tok)
    THEN CHOOSE i \in 1..Len(s) : s[i] = tok /\ \A j \in (i+1)..Len(s) : s[j] # tok
    ELSE 0

FirstIndex(s, tok) ==
    IF Contains(s, tok)
    THEN CHOOSE i \in 1..Len(s) : s[i] = tok /\ \A j \in 1..(i-1) : s[j] # tok
    ELSE 0

\* net.SplitHostPort
SplitHostPort(s) ==
    LET i == LastColon(s)
        bad == [host |-> <<>>, port |-> <<>>, err |-> "split"]
    IN  IF i = 0 \/ s[i] # ":" THEN bad
        ELSE IF s[1] = "["
        THEN LET end == FirstIndex(s, "]")
             IN  IF end = 0 \/ end + 1 # i THEN bad
                 ELSE LET h == SubSeq(s, 2, end - 1)
                          p == SubSeq(s, i + 1, Len(s))
                      IN  IF Contains(h, "[") \/ Contains(h, "]")
                             \/ Contains(p, "[") \/ Contains(p, "]")
                          THEN bad
                          ELSE [host |-> h, port |-> p, err |-> Nil]
        ELSE LET h == SubSeq(s, 1, i - 1)
                 p == SubSeq(s, i + 1, Len(s))
             IN  IF ContainsColon(h) \/ Contains(s, "[") \/ Contains(s, "]")
                 THEN bad
                 ELSE [host |-> h, port |-> p, err |-> Nil]

\* net.ParseIP: the IP a literal denotes, Nil for anything else (a zone too)
ParseIP(s) == IF Len(s) = 1 /\ s[1] \in IPs THEN s[1] ELSE Nil

\* net.IP.To4
To4(ip) == IF ip \in V4Texts THEN ip ELSE Nil

\* net.IP.String
IPString(ip) == <<ip>>

\* net.JoinHostPort: brackets a host that holds a colon or a percent sign
JoinHostPort(h, p) ==
    IF ContainsColon(h) \/ Contains(h, "%")
    THEN <<"[">> \o h \o <<"]", ":">> \o p
    ELSE h \o <<":">> \o p

\* strings.ToLower on the preference values
ToLower(p) == IF p = "V6" THEN "v6" ELSE p

\* ---------------------------------------------------------------- netutil
IsIPv4(ip) == IF ip = Nil THEN FALSE ELSE To4(ip) # Nil

IsIPv6(ip) == IF ip = Nil THEN FALSE ELSE To4(ip) = Nil

ParseAddr(input, defaultPort) ==
    LET sp    == SplitHostPort(input)
        host1 == IF sp.err = Nil THEN sp.host ELSE input
        port  == IF sp.err = Nil THEN sp.port ELSE defaultPort
        host2 == IF Len(host1) >= 1 /\ host1[1] = "[" /\ host1[Len(host1)] = "]"
                 THEN SubSeq(host1, 2, Len(host1) - 1)
                 ELSE host1
        i     == LastIndex(host2, "%")
        zone  == IF i # 0 THEN SubSeq(host2, i + 1, Len(host2)) ELSE <<>>
        host  == IF i # 0 THEN SubSeq(host2, 1, i - 1) ELSE host2
        ip    == ParseIP(host)
        joinHost == IF zone # <<>> THEN host \o <<"%">> \o zone ELSE host
    IN  [host |-> host, port |-> port, joinAddr |-> JoinHostPort(joinHost, port),
         ip |-> ip, isIP |-> ip # Nil, zone |-> zone, err |-> Nil]

\* the network a literal or candidate is dialed on
FamilyOf(ip) == IF IsIPv4(ip) THEN "v4" ELSE "v6"

NetworkOf(networkBase, ip) ==
    IF IsIPv4(ip) THEN networkBase \o "4" ELSE networkBase \o "6"

SelectSeq4(s) == SelectSeq(s, LAMBDA ip : IsIPv4(ip))

SelectSeq6(s) == SelectSeq(s, LAMBDA ip : ~IsIPv4(ip))

\* variant: the preference is compared without lower-casing it
TryOrderCaseSensitive(res, prefer) ==
    LET v4s == SelectSeq4(res)
        v6s == SelectSeq6(res)
    IN  IF prefer = "v6" THEN v6s \o v4s
        ELSE IF prefer = "v4" THEN v4s \o v6s
        ELSE res

\* ResolveAndDial: partition and try order
TryOrder(res, prefer) ==
    LET v4s  == SelectSeq4(res)
        v6s  == SelectSeq6(res)
        pref == ToLower(prefer)
    IN  IF pref = "v6" THEN v6s \o v4s
        ELSE IF pref = "v4" THEN v4s \o v6s
        ELSE res

\* ------------------------------------------------------------ environment
\* what the resolver may answer: a non-empty list without repetition
ResolverLists ==
    {s \in UNION {[1..n -> IPs] : n \in 1..MaxResolved} :
        \A i, j \in 1..Len(s) : i # j => s[i] # s[j]}

Targets ==
    { <<"4a", ":", "p">>, <<"4a">>, <<"4a", "%", "z", ":", "p">>,
      <<"[", "6a", "]", ":", "p">>, <<"6a">>, <<"[", "6a", "]">>,
      <<"[", "6a", "%", "z", "]", ":", "p">>, <<"6a", "%", "z">>,
      <<"h", ":", "p">>, <<"h">>, <<"h", ":", "p", ":", "p">> }

\* target URLs: one that is sent, one http.NewRequestWithContext rejects, and
\* one without a scheme, which it accepts and the transport rejects
URLs == {<<"http", ":", "//", "h">>, <<":", "//", "h">>, <<"h">>}

\* the stage keys the callbacks use: "dns", "connect:"+addr, "tls"
Keys == {"dns", "connect:a", "tls"}

Threads == 1..MaxThreads

IdleThread == [pc |-> "idle", key |-> "", hop |-> 0, s |-> 0, ok |-> FALSE]

NoStarts == [k \in {} |-> 0]

NoDial == [conn |-> 0, chosenIP |-> Nil, resolved |-> <<>>, fam |-> "", err |-> Nil]

\* no write and no read yet
NoIO == [werr |-> FALSE, reads |-> 0, rn |-> 0, rerr |-> FALSE]

\* context.Background(), or any context that was not cancelled
Background == [cancelled |-> FALSE, at |-> ""]

\* the goroutines that share one BufferingEmitter
Callers == 1..MaxCallers

\* a slice: its backing array and its length
Slice(a, n) == [arr |-> a, len |-> n]

\* NewBufferingEmitter(): events: make([]Event, 0); array 0 backs it
NewBufferingEmitter == [mu |-> 0, events |-> Slice(0, 0)]

\* a goroutine that has called nothing yet.  emits: Emit calls that returned;
\* hdr: the slice read by append; has, out: whether Events() returned, and
\* what; snap: the elements of out when it was returned; mutated: whether
\* the goroutine has written into out
IdleCaller == [pc |-> "idle", emits |-> 0, hdr |-> Slice(0, 0), has |-> FALSE,
               out |-> Slice(0, 0), snap |-> <<>>, mutated |-> FALSE]

\* what a caller of Events() writes into the slice it got
Junk == [by |-> 0, seq |-> 0]

NoParse == [host |-> <<>>, port |-> <<>>, joinAddr |-> <<>>, ip |-> Nil,
            isIP |-> FALSE, zone |-> <<>>, err |-> Nil]

\* ---------------------------------------------------------------- headers
\* an http.Header: a map from names to lists of values
NoHeaders == [k \in {} |-> <<>>]

Redacted == "REDACTED"

TraceHeader == "X-Trace-Id"

\* textproto.CanonicalMIMEHeaderKey on the names used here
CanonicalKey(k) == IF k = "authorization" THEN "Authorization" ELSE k

\* strings.ToLower on the names used here
LowerKey(k) ==
    CASE k = "Authorization" -> "authorization"
      [] k = "Cookie"        -> "cookie"
      [] k = "Set-Cookie"    -> "set-cookie"
      [] k = "X-Trace-Id"    -> "x-trace-id"
      [] k = "X-Custom"      -> "x-custom"
      [] k = "Content-Type"  -> "content-type"
      [] OTHER               -> k

\* the text of a trace id
TraceText(id) == ToString(id)

\* Header.Get: the first value of the name, "" if there is none
HeaderGet(h, k) == IF k \in DOMAIN h /\ h[k] # <<>> THEN h[k][1] ELSE ""

\* Header.Set: replace all values of the name by one value
HeaderSet(h, k, v) == [x \in DOMAIN h \cup {k} |-> IF x = k THEN <<v>> ELSE h[x]]

\* req.Header.Add(k, vv) for every entry of cfg.Headers: names are canonicalized
AddHeaders(hs) ==
    [k \in {CanonicalKey(n) : n \in DOMAIN hs} |->
        hs[CHOOSE n \in DOMAIN hs : CanonicalKey(n) = k]]

\* variant: the capture aliases the Header it was given
CopyHeadersAlias(h) == [fresh |-> FALSE, hdr |-> h]

\* copyHeaders: a new map with copies of the value lists
CopyHeaders(h) == [fresh |-> TRUE, hdr |-> h]

\* variant: the name is compared without lower-casing it
SanitizeHeadersCaseSensitive(h, isReq) ==
    [k \in DOMAIN h |->
        IF isReq
        THEN IF k = "authorization" \/ k = "cookie" THEN <<Redacted>> ELSE h[k]
        ELSE IF k = "set-cookie" THEN <<Redacted>> ELSE h[k]]

\* sanitizeHeaders, as the map it leaves behind
SanitizeHeaders(h, isReq) ==
    [k \in DOMAIN h |->
        IF isReq
        THEN IF LowerKey(k) = "authorization" \/ LowerKey(k) = "cookie"
             THEN <<Redacted>> ELSE h[k]
        ELSE IF LowerKey(k) = "set-cookie" THEN <<Redacted>> ELSE h[k]]

\* the capture of a Header for an event: the captured map, and the Header
\* itself afterwards (sanitizeHeaders writes into the map it is given)
Capture(h, redact, isReq) ==
    LET c == CopyHeaders(h)
        m == IF redact THEN SanitizeHeaders(c.hdr, isReq) ELSE c.hdr
    IN  [captured |-> m, after |-> IF c.fresh THEN h ELSE m]

\* the client's header copier for a redirect: the initial request's headers,
\* without the sensitive ones when the redirect leaves the domain
RedirectHeaders(h, cross) ==
    [k \in {n \in DOMAIN h : ~(cross /\ n \in {"Authorization", "Cookie"})} |-> h[k]]

\* what a caller may pass to WithHeaders
HeaderSets ==
    { NoHeaders,
      [k \in {"authorization", "Cookie", "X-Custom"} |->
          IF k = "authorization" THEN <<"s1">>
          ELSE IF k = "Cookie" THEN <<"s2">> ELSE <<"v">>],
      [k \in {"X-Trace-Id"} |-> <<"c">>],
      [k \in {"X-Trace-Id"} |-> <<"", "c">>] }

\* what a server may answer
RespHeaderSets ==
    { NoHeaders,
      [k \in {"Set-Cookie", "Content-Type"} |->
          IF k = "Set-Cookie" THEN <<"s3">> ELSE <<"t">>] }

\* the number of body bytes TraceURL reads at most: 1024
BodyLimit == 1024

ErrBody == "unexpected EOF"

\* a response body: its length, and the offset at which reading it fails
\* (failAt = len: reading it does not fail)
BodyLens == {0, BodyLimit - 1, BodyLimit, BodyLimit + 1}

Bodies == {bd \in [len : BodyLens, failAt : BodyLens] : bd.failAt <= bd.len}

EmptyBody == [len |-> 0, failAt |-> 0]

\* variant: the body is read to its end
CopyAll(body, n) ==
    [n |-> body.failAt, err |-> IF body.failAt < body.len THEN ErrBody ELSE Nil]

\* ioCopyNDiscard: io.CopyN(io.Discard, r, n) copies until n bytes are copied,
\* the body ends or reading it fails; the error is nil only if n were copied
ioCopyNDiscard(body, n) ==
    LET written == IF body.failAt < n THEN body.failAt ELSE n
    IN  [n |-> written,
         err |-> IF written = n THEN Nil
                 ELSE IF body.failAt < body.len THEN ErrBody ELSE "EOF"]

\* hdr: the headers of every response; cross: redirects leave the domain;
\* at: the URL, of a redirect cycle A -> B -> A, that answers next;
\* body: the body of the final response
Servers == [hdr : RespHeaderSets, cross : BOOLEAN, at : {"A"}, body : {EmptyBody}]

\* Timeout: 30 * time.Second, in seconds
DefaultTimeout == 30

\* the options TraceURL starts from when the caller passes none but dry-run
DefaultHTTP(dry) ==
    [Dry |-> dry, Data |-> FALSE, IPPref |-> "", Redact |-> TRUE,
     InjectTraceHeader |-> FALSE, Headers |-> NoHeaders,
     RedactRequests |-> TRUE, RedactResponses |-> TRUE,
     Timeout |-> DefaultTimeout]

DefaultServer ==
    [hdr |-> [k \in {"Set-Cookie", "Content-Type"} |->
                 IF k = "Set-Cookie" THEN <<"s3">> ELSE <<"t">>],
     cross |-> FALSE, at |-> "A", body |-> EmptyBody]

\* ----------------------------------------------------------------- events
\* An event as passed to Emit.  by, hop and key are not fields of event.Event:
\* they record which goroutine emitted it, during which hop its callback was
\* first delivered, and for which stage key.  since is the instant DurationNS
\* is measured from (DurationNS = time of emission - since), 0 when unset.
\* headers is the "headers" entry of the payload.  orig and wire are not
\* fields of event.Event: for request_send they are the Header of the request
\* handed to base.RoundTrip before and after the capture, for response_headers
\* the Header of the response before the capture and as returned to the client.
\* n is the "bytes_read" entry of the payload, 0 when there is none.
Ev(stage, etype, trace, conn) ==
    [stage |-> stage, etype |-> etype, trace |-> trace, conn |-> conn,
     by |-> 0, hop |-> 0, key |-> "", since |-> 0, n |-> 0,
     headers |-> NoHeaders, orig |-> NoHeaders, wire |-> NoHeaders]

HEv(stage, etype, trace, by, h, key, since) ==
    [stage |-> stage, etype |-> etype, trace |-> trace, conn |-> 0,
     by |-> by, hop |-> h, key |-> key, since |-> since, n |-> 0,
     headers |-> NoHeaders, orig |-> NoHeaders, wire |-> NoHeaders]

\* the emitters a caller may pass: one whose sink works, one whose every Emit
\* call returns an error
Emitters == {"buffering", "failing"}

ErrSink == "sink write failed"

\* WithEmitter(e) applied to a configuration
WithEmitter(c, em) ==
    [k \in DOMAIN c \cup {"Emitter"} |-> IF k = "Emitter" THEN em ELSE c[k]]

\* if cfg.Emitter == nil { cfg.Emitter = event.NewStdoutEmitter(...) }
EmitterOf(c) == IF "Emitter" \in DOMAIN c THEN c.Emitter ELSE "stdout"

\* what Emitter.Emit returns for an event
EmitResult(e) == IF EmitterOf(cfg) = "failing" THEN ErrSink ELSE Nil

\* variant: an event whose emission failed is not part of the trace
EmitChecked(e) ==
    events' = IF EmitResult(e) = Nil THEN Append(events, e) ELSE events

\* cfg.Emitter.Emit(ctx, e) as a statement: the result is discarded
Emit(e) == events' = Append(events, e)

\* ------------------------------------------------------------------- Init
InitTraceAddr ==
    /\ proto \in {"tcp", "udp"}
    /\ cfg \in [Dry : BOOLEAN, Data : BOOLEAN, IPPref : Prefs]
    /\ addr \in Targets

InitDial ==
    /\ proto = "dial"
    /\ cfg \in [Dry : {FALSE}, Data : {FALSE}, IPPref : Prefs,
                Timeout : {DefaultTimeout}]
    /\ addr \in {<<"4a">>, <<"6a">>, <<"h">>, <<"6a", "%", "z">>}

InitTraceURL ==
    /\ proto = "http"
    /\ cfg \in {DefaultHTTP(dry) : dry \in BOOLEAN}
    /\ addr \in URLs

\* the state in which an entry point is entered
AtEntry ==
    /\ ctx = Background
    /\ pc = "init"
    /\ events = <<>>
    /\ ret = "none"
    /\ uuids = 0
    /\ traceID = 0
    /\ connID = 0
    /\ parsed = NoParse
    /\ lookups = 0
    /\ dials = <<>>
    /\ open = {}
    /\ writes = 0
    /\ io = NoIO
    /\ reach = {}
    /\ resolved = <<>>
    /\ order = <<>>
    /\ idx = 0
    /\ dr = NoDial
    /\ hop = 0
    /\ now = 0
    /\ start = 0
    /\ mu = 0
    /\ stageStarts = NoStarts
    /\ th = [t \in Threads |-> IdleThread]
    /\ req = NoHeaders
    /\ b = NewBufferingEmitter
    /\ heap = [a \in 0..MaxCallers |-> <<>>]
    /\ g = [t \in Callers |-> IdleCaller]

Init ==
    /\ InitTraceAddr \/ InitDial \/ InitTraceURL
    /\ srv = DefaultServer
    /\ AtEntry

\* ------------------------------------------------------- shared fragments
NewUUID == uuids + 1

\* what a DialContext(ctx, ...) call can answer: a cancelled context fails it
DialOutcomes == IF ctx.cancelled THEN {FALSE} ELSE BOOLEAN

\* the ceiling of the per-attempt timeout: 5 * time.Second, in seconds
PerAttemptCeiling == 5

\* udp.TraceAddr starts from Timeout: 5 * time.Second
UdpDefaultTimeout == 5

\* cfg.Timeout: what WithTimeout set (for ResolveAndDial called directly, its
\* timeout argument), else the value the entry point starts from
TimeoutOf(c) ==
    IF "Timeout" \in DOMAIN c THEN c.Timeout
    ELSE IF proto = "udp" THEN UdpDefaultTimeout ELSE DefaultTimeout

\* variant: every attempt gets the caller's whole timeout
PerAttemptUnbounded(timeout) == timeout

\* perAttempt := 5s; if timeout > 0 && timeout < perAttempt { perAttempt = timeout }
PerAttempt(timeout) ==
    IF timeout > 0 /\ timeout < PerAttemptCeiling THEN timeout ELSE PerAttemptCeiling

\* one DialContext call of a net.Dialer{Timeout: d}; ok is the network's answer
Dial(network, a, d, ok) ==
    /\ dials' = Append(dials, [network |-> network, addr |-> a, timeout |-> d,
                               ok |-> ok])
    /\ open' = IF ok THEN open \cup {Len(dials) + 1} ELSE open

\* deferred conn.Close()
CloseConn == open' = open \ {dr.conn}

Return(v) == ret' = v /\ pc' = "done"

AfterDial == IF proto = "dial" THEN "done" ELSE "dialed"

\* --------------------------------------------------- netutil.ResolveAndDial
\* the host is an IP literal: one dial on the family-specific network
RADLiteral(networkBase) ==
    /\ pc = "rad"
    /\ ParseIP(parsed.host) # Nil
    /\ LET ip == ParseIP(parsed.host)
       IN  \E ok \in DialOutcomes :
            /\ Dial(NetworkOf(networkBase, ip), JoinHostPort(parsed.host, parsed.port),
                    TimeoutOf(cfg), ok)
            /\ dr' = [conn |-> IF ok THEN Len(dials) + 1 ELSE 0, chosenIP |-> ip,
                      resolved |-> <<>>, fam |-> FamilyOf(ip),
                      err |-> IF ok THEN Nil ELSE ErrDial]
    /\ pc' = AfterDial
    /\ ret' = IF proto = "dial" THEN dr'.err ELSE ret
    /\ UNCHANGED <<httpVars, bufVars>>
    /\ UNCHANGED <<proto, cfg, addr, ctx, events, uuids, traceID, connID, parsed,
                   lookups, writes, io, reach, resolved, order, idx>>

\* LookupIP fails: the resolver's error, no dial
RADLookupFail ==
    /\ pc = "rad"
    /\ ParseIP(parsed.host) = Nil
    /\ lookups' = lookups + 1
    /\ dr' = [NoDial EXCEPT !.err = ErrLookup]
    /\ pc' = AfterDial
    /\ ret' = IF proto = "dial" THEN ErrLookup ELSE ret
    /\ UNCHANGED <<httpVars, bufVars>>
    /\ UNCHANGED <<proto, cfg, addr, ctx, events, uuids, traceID, connID, parsed,
                   dials, open, writes, io, reach, resolved, order, idx>>

\* a zoned IPv6 literal: net.ParseIP rejects it, the resolver answers it with
\* the address without its zone
IsZonedLiteral(h) == Len(h) = 3 /\ h[1] \in V6Texts /\ h[2] = "%"

\* LookupIP answers: partition, build the try order
RADLookup ==
    /\ pc = "rad"
    /\ ~ctx.cancelled
    /\ ParseIP(parsed.host) = Nil
    /\ parsed.host = <<"h">> \/ IsZonedLiteral(parsed.host)
    /\ lookups' = lookups + 1
    /\ \E ips \in ResolverLists : \E r \in SUBSET {ips[i] : i \in 1..Len(ips)} :
        /\ IsZonedLiteral(parsed.host) => ips = <<parsed.host[1]>>
        /\ resolved' = ips
        /\ reach' = r
        /\ order' = TryOrder(ips, cfg.IPPref)
    /\ idx' = 1
    /\ pc' = "rad_loop"
    /\ UNCHANGED <<httpVars, bufVars>>
    /\ UNCHANGED <<proto, cfg, addr, ctx, events, ret, uuids, traceID, connID, parsed,
                   dials, open, writes, io, dr>>

\* variant: the loop lacks its return and goes on dialing after a success
RADAttemptNoReturn(networkBase) ==
    /\ pc = "rad_loop"
    /\ idx <= Len(order)
    /\ LET ip == order[idx]
           ok == ip \in reach /\ ~ctx.cancelled
       IN  /\ Dial(NetworkOf(networkBase, ip), JoinHostPort(IPString(ip), parsed.port),
                   PerAttempt(TimeoutOf(cfg)), ok)
           /\ dr' = IF ok
                    THEN [conn |-> Len(dials) + 1, chosenIP |-> ip,
                          resolved |-> resolved, fam |-> FamilyOf(ip), err |-> Nil]
                    ELSE dr
    /\ idx' = idx + 1
    /\ UNCHANGED <<pc, ret>>
    /\ UNCHANGED <<httpVars, bufVars>>
    /\ UNCHANGED <<proto, cfg, addr, ctx, events, uuids, traceID, connID, parsed,
                   lookups, writes, io, reach, resolved, order>>

\* one iteration of the dial loop
RADAttempt(networkBase) ==
    /\ pc = "rad_loop"
    /\ idx <= Len(order)
    /\ LET ip == order[idx]
           ok == ip \in reach /\ ~ctx.cancelled
       IN  /\ Dial(NetworkOf(networkBase, ip), JoinHostPort(IPString(ip), parsed.port),
                   PerAttempt(TimeoutOf(cfg)), ok)
           /\ IF ok
              THEN /\ dr' = [conn |-> Len(dials) + 1, chosenIP |-> ip,
                             resolved |-> resolved, fam |-> FamilyOf(ip), err |-> Nil]
                   /\ pc' = AfterDial
                   /\ ret' = IF proto = "dial" THEN Nil ELSE ret
                   /\ idx' = idx
              ELSE /\ idx' = idx + 1
                   /\ UNCHANGED <<dr, pc, ret>>
    /\ UNCHANGED <<httpVars, bufVars>>
    /\ UNCHANGED <<proto, cfg, addr, ctx, events, uuids, traceID, connID, parsed,
                   lookups, writes, io, reach, resolved, order>>

\* variant: the loop returns a dial error instead of context.DeadlineExceeded
RADExhaustedDialError ==
    /\ pc = "rad_loop"
    /\ idx > Len(order)
    /\ dr' = [conn |-> 0, chosenIP |-> Nil, resolved |-> resolved, fam |-> "",
              err |-> ErrDial]
    /\ pc' = AfterDial
    /\ ret' = IF proto = "dial" THEN ErrDial ELSE ret
    /\ UNCHANGED <<httpVars, bufVars>>
    /\ UNCHANGED <<proto, cfg, addr, ctx, events, uuids, traceID, connID, parsed,
                   lookups, dials, open, writes, io, reach, resolved, order, idx>>

\* every candidate failed
RADExhausted ==
    /\ pc = "rad_loop"
    /\ idx > Len(order)
    /\ dr' = [conn |-> 0, chosenIP |-> Nil, resolved |-> resolved, fam |-> "",
              err |-> DeadlineExceeded]
    /\ pc' = AfterDial
    /\ ret' = IF proto = "dial" THEN DeadlineExceeded ELSE ret
    /\ UNCHANGED <<httpVars, bufVars>>
    /\ UNCHANGED <<proto, cfg, addr, ctx, events, uuids, traceID, connID, parsed,
                   lookups, dials, open, writes, io, reach, resolved, order, idx>>

NetworkBase == IF proto = "dial" THEN "tcp" ELSE proto

ResolveAndDial ==
    \/ RADLiteral(NetworkBase)
    \/ RADLookupFail
    \/ RADLookup
    \/ RADAttempt(NetworkBase)
    \/ RADExhausted

\* a caller outside the tracers calls ResolveAndDial(ctx, "tcp", host, port, prefer, timeout)
DirectCall ==
    /\ proto = "dial"
    /\ pc = "init"
    /\ parsed' = [NoParse EXCEPT !.host = addr, !.port = DefaultPort]
    /\ pc' = "rad"
    /\ UNCHANGED <<httpVars, bufVars>>
    /\ UNCHANGED <<proto, cfg, addr, ctx, events, ret, uuids, traceID, connID,
                   lookups, dials, open, writes, io, reach, resolved, order, idx, dr>>

\* variant: request_start is emitted a second time
StartRequestTwice(protocol) ==
    /\ pc = "init"
    /\ proto = protocol
    /\ uuids' = NewUUID
    /\ traceID' = NewUUID
    /\ events' = events \o <<Ev("request_start", "lifecycle", NewUUID, 0),
                              Ev("request_start", "lifecycle", NewUUID, 0)>>
    /\ pc' = "started"

\* variant: the dry-run branch lacks its return and falls through to the dial
EmitDryRunFallsThrough(protocol) ==
    /\ pc = "started"
    /\ proto = protocol
    /\ cfg.Dry
    /\ Emit(Ev("dry_run", "lifecycle", traceID, 0))
    /\ pc' = "parsed"
    /\ ret' = ret

\* variant: the entry point returns without emitting request_end
RequestEndSilent(protocol) ==
    /\ pc = "end"
    /\ proto = protocol
    /\ events' = events
    /\ CloseConn
    /\ Return(Nil)

\* variant: data_send is emitted without the connection id
DataSendNoConn(protocol) ==
    /\ pc = "send"
    /\ proto = protocol
    /\ writes' = writes + 1
    /\ \E werr \in BOOLEAN : io' = [io EXCEPT !.werr = werr]
    /\ Emit(Ev("data_send", "lifecycle", traceID, 0))
    /\ pc' = "recv"

\* variant: a failed dial replaces what was emitted by the error event
DialErrorRetracts(protocol, stage) ==
    /\ pc = "dialed"
    /\ proto = protocol
    /\ dr.err # Nil
    /\ events' = <<Ev(stage, "error", traceID, 0)>>
    /\ Return(dr.err)

\* ---------------------------------------------- tcp.TraceAddr, udp.TraceAddr
\* traceID := uuid.NewString(); emit request_start
StartRequest(protocol) ==
    /\ pc = "init"
    /\ proto = protocol
    /\ uuids' = NewUUID
    /\ traceID' = NewUUID
    /\ Emit(Ev("request_start", "lifecycle", NewUUID, 0))
    /\ pc' = "started"

\* if cfg.Dry: emit dry_run, return nil
EmitDryRun(protocol) ==
    /\ pc = "started"
    /\ proto = protocol
    /\ cfg.Dry
    /\ Emit(Ev("dry_run", "lifecycle", traceID, 0))
    /\ Return(Nil)

\* ParseAddr and its error branch; pre is what was emitted just before it
ParseStep(pre, p) ==
    IF p.err # Nil
    THEN /\ events' = pre \o <<Ev("resolve_error", "error", traceID, 0)>>
         /\ Return(p.err)
         /\ UNCHANGED parsed
    ELSE /\ events' = pre
         /\ parsed' = p
         /\ pc' = "parsed"
         /\ UNCHANGED ret

\* the IP-literal branch of TraceAddr: one direct dial
DialLiteral(protocol) ==
    /\ pc = "parsed"
    /\ proto = protocol
    /\ parsed.isIP
    /\ \E ok \in DialOutcomes :
        /\ Dial(NetworkOf(protocol, parsed.ip), parsed.joinAddr, TimeoutOf(cfg), ok)
        /\ dr' = [conn |-> IF ok THEN Len(dials) + 1 ELSE 0, chosenIP |-> parsed.ip,
                  resolved |-> <<>>, fam |-> FamilyOf(parsed.ip),
                  err |-> IF ok THEN Nil ELSE ErrDial]
    /\ pc' = "dialed"

\* the host-name branch of TraceAddr
CallResolveAndDial(protocol) ==
    /\ pc = "parsed"
    /\ proto = protocol
    /\ ~parsed.isIP
    /\ pc' = "rad"

\* derr != nil: one error event, return derr
DialError(protocol, stage) ==
    /\ pc = "dialed"
    /\ proto = protocol
    /\ dr.err # Nil
    /\ Emit(Ev(stage, "error", traceID, 0))
    /\ Return(dr.err)

\* connID := uuid.NewString(); emit the connection-established event
Connected(protocol, stage) ==
    /\ pc = "dialed"
    /\ proto = protocol
    /\ dr.err = Nil
    /\ uuids' = NewUUID
    /\ connID' = NewUUID
    /\ Emit(Ev(stage, "lifecycle", traceID, NewUUID))
    /\ pc' = IF cfg.Data THEN "send" ELSE "end"

\* write the payload, whatever the write answers emit data_send
DataSend(protocol) ==
    /\ pc = "send"
    /\ proto = protocol
    /\ writes' = writes + 1
    /\ \E werr \in BOOLEAN : io' = [io EXCEPT !.werr = werr]
    /\ Emit(Ev("data_send", "lifecycle", traceID, connID))
    /\ pc' = "recv"

\* variant: the connection is not closed when the entry point returns
RequestEndNoClose(protocol) ==
    /\ pc = "end"
    /\ proto = protocol
    /\ Emit(Ev("request_end", "lifecycle", traceID, connID))
    /\ open' = open
    /\ Return(Nil)

\* emit request_end, return nil; the deferred Close runs
RequestEnd(protocol) ==
    /\ pc = "end"
    /\ proto = protocol
    /\ Emit(Ev("request_end", "lifecycle", traceID, connID))
    /\ CloseConn
    /\ Return(Nil)

TcpStart ==
    /\ StartRequest("tcp")
    /\ UNCHANGED <<httpVars, bufVars>>
    /\ UNCHANGED <<proto, cfg, addr, ctx, ret, connID, parsed, lookups, dials, open,
                   writes, io, reach, resolved, order, idx, dr>>

TcpDryRun ==
    /\ EmitDryRun("tcp")
    /\ UNCHANGED <<httpVars, bufVars>>
    /\ UNCHANGED <<proto, cfg, addr, ctx, uuids, traceID, connID, parsed, lookups, dials,
                   open, writes, io, reach, resolved, order, idx, dr>>

\* variant: the dial is prepared without a connect_start event
TcpConnectStartSilent ==
    /\ pc = "started"
    /\ proto = "tcp"
    /\ ~cfg.Dry
    /\ ParseStep(events, ParseAddr(addr, DefaultPort))
    /\ UNCHANGED <<httpVars, bufVars>>
    /\ UNCHANGED <<proto, cfg, addr, ctx, uuids, traceID, connID, lookups, dials, open,
                   writes, io, reach, resolved, order, idx, dr>>

\* emit connect_start, then ParseAddr(addr, "80")
TcpConnectStart ==
    /\ pc = "started"
    /\ proto = "tcp"
    /\ ~cfg.Dry
    /\ ParseStep(Append(events, Ev("connect_start", "lifecycle", traceID, 0)),
                 ParseAddr(addr, DefaultPort))
    /\ UNCHANGED <<httpVars, bufVars>>
    /\ UNCHANGED <<proto, cfg, addr, ctx, uuids, traceID, connID, lookups, dials, open,
                   writes, io, reach, resolved, order, idx, dr>>

TcpDialLiteral ==
    /\ DialLiteral("tcp")
    /\ UNCHANGED <<httpVars, bufVars>>
    /\ UNCHANGED <<proto, cfg, addr, ctx, events, ret, uuids, traceID, connID, parsed,
                   lookups, writes, io, reach, resolved, order, idx>>

TcpResolveAndDial ==
    /\ CallResolveAndDial("tcp")
    /\ UNCHANGED <<httpVars, bufVars>>
    /\ UNCHANGED <<proto, cfg, addr, ctx, events, ret, uuids, traceID, connID, parsed,
                   lookups, dials, open, writes, io, reach, resolved, order, idx, dr>>

TcpConnectError ==
    /\ DialError("tcp", "connect_error")
    /\ UNCHANGED <<httpVars, bufVars>>
    /\ UNCHANGED <<proto, cfg, addr, ctx, uuids, traceID, connID, parsed, lookups, dials,
                   open, writes, io, reach, resolved, order, idx, dr>>

TcpConnectDone ==
    /\ Connected("tcp", "connect_done")
    /\ UNCHANGED <<httpVars, bufVars>>
    /\ UNCHANGED <<proto, cfg, addr, ctx, ret, traceID, parsed, lookups, dials, open,
                   writes, io, reach, resolved, order, idx, dr>>

TcpDataSend ==
    /\ DataSend("tcp")
    /\ UNCHANGED <<httpVars, bufVars>>
    /\ UNCHANGED <<proto, cfg, addr, ctx, ret, uuids, traceID, connID, parsed, lookups,
                   dials, open, reach, resolved, order, idx, dr>>

\* variant: data_recv is emitted whatever the read returned
TcpReadAlwaysRecv ==
    /\ pc = "recv"
    /\ proto = "tcp"
    /\ \E nr \in {0, 1} :
        /\ io' = [io EXCEPT !.reads = @ + 1, !.rn = nr, !.rerr = (nr = 0)]
        /\ events' = Append(events, Ev("data_recv", "lifecycle", traceID, connID))
    /\ pc' = "end"
    /\ UNCHANGED <<httpVars, bufVars>>
    /\ UNCHANGED <<proto, cfg, addr, ctx, ret, uuids, traceID, connID, parsed,
                   lookups, dials, open, writes, reach, resolved, order, idx, dr>>

\* one bounded read: (nr > 0, nil) or (0, err); data_recv iff nr > 0
TcpRead ==
    /\ pc = "recv"
    /\ proto = "tcp"
    /\ \E nr \in {0, 1} :
        /\ io' = [io EXCEPT !.reads = @ + 1, !.rn = nr, !.rerr = (nr = 0)]
        /\ events' = IF nr > 0
                     THEN Append(events, Ev("data_recv", "lifecycle", traceID, connID))
                     ELSE events
    /\ pc' = "end"
    /\ UNCHANGED <<httpVars, bufVars>>
    /\ UNCHANGED <<proto, cfg, addr, ctx, ret, uuids, traceID, connID, parsed,
                   lookups, dials, open, writes, reach, resolved, order, idx, dr>>

TcpRequestEnd ==
    /\ RequestEnd("tcp")
    /\ UNCHANGED <<httpVars, bufVars>>
    /\ UNCHANGED <<proto, cfg, addr, ctx, uuids, traceID, connID, parsed, lookups, dials,
                   writes, io, reach, resolved, order, idx, dr>>

UdpStart ==
    /\ StartRequest("udp")
    /\ UNCHANGED <<httpVars, bufVars>>
    /\ UNCHANGED <<proto, cfg, addr, ctx, ret, connID, parsed, lookups, dials, open,
                   writes, io, reach, resolved, order, idx, dr>>

UdpDryRun ==
    /\ EmitDryRun("udp")
    /\ UNCHANGED <<httpVars, bufVars>>
    /\ UNCHANGED <<proto, cfg, addr, ctx, uuids, traceID, connID, parsed, lookups, dials,
                   open, writes, io, reach, resolved, order, idx, dr>>

\* ParseAddr(addr, "80"); no event precedes it
UdpParse ==
    /\ pc = "started"
    /\ proto = "udp"
    /\ ~cfg.Dry
    /\ ParseStep(events, ParseAddr(addr, DefaultPort))
    /\ UNCHANGED <<httpVars, bufVars>>
    /\ UNCHANGED <<proto, cfg, addr, ctx, uuids, traceID, connID, lookups, dials, open,
                   writes, io, reach, resolved, order, idx, dr>>

UdpDialLiteral ==
    /\ DialLiteral("udp")
    /\ UNCHANGED <<httpVars, bufVars>>
    /\ UNCHANGED <<proto, cfg, addr, ctx, events, ret, uuids, traceID, connID, parsed,
                   lookups, writes, io, reach, resolved, order, idx>>

UdpResolveAndDial ==
    /\ CallResolveAndDial("udp")
    /\ UNCHANGED <<httpVars, bufVars>>
    /\ UNCHANGED <<proto, cfg, addr, ctx, events, ret, uuids, traceID, connID, parsed,
                   lookups, dials, open, writes, io, reach, resolved, order, idx, dr>>

UdpDialError ==
    /\ DialError("udp", "dial_error")
    /\ UNCHANGED <<httpVars, bufVars>>
    /\ UNCHANGED <<proto, cfg, addr, ctx, uuids, traceID, connID, parsed, lookups, dials,
                   open, writes, io, reach, resolved, order, idx, dr>>

UdpConnected ==
    /\ Connected("udp", "connected")
    /\ UNCHANGED <<httpVars, bufVars>>
    /\ UNCHANGED <<proto, cfg, addr, ctx, ret, traceID, parsed, lookups, dials, open,
                   writes, io, reach, resolved, order, idx, dr>>

UdpDataSend ==
    /\ DataSend("udp")
    /\ UNCHANGED <<httpVars, bufVars>>
    /\ UNCHANGED <<proto, cfg, addr, ctx, ret, uuids, traceID, connID, parsed, lookups,
                   dials, open, reach, resolved, order, idx, dr>>

\* variant: a failed read is reported as an error event and ends the trace
UdpReadFatal ==
    /\ pc = "recv"
    /\ proto = "udp"
    /\ \E out \in {[rn |-> 1, rerr |-> FALSE], [rn |-> 0, rerr |-> TRUE],
                   [rn |-> 0, rerr |-> FALSE]} :
        /\ io' = [io EXCEPT !.reads = @ + 1, !.rn = out.rn, !.rerr = out.rerr]
        /\ events' = events
                     \o (IF out.rn > 0
                         THEN <<Ev("data_recv", "lifecycle", traceID, connID)>>
                         ELSE <<>>)
                     \o (IF out.rerr
                         THEN <<Ev("recv_error", "error", traceID, connID)>>
                         ELSE <<>>)
        /\ pc' = IF out.rerr THEN "done" ELSE "end"
        /\ ret' = IF out.rerr THEN ErrDial ELSE ret
    /\ UNCHANGED <<httpVars, bufVars>>
    /\ UNCHANGED <<proto, cfg, addr, ctx, uuids, traceID, connID, parsed,
                   lookups, dials, open, writes, reach, resolved, order, idx, dr>>

\* the read: (rn > 0, nil), (0, err) or an empty datagram (0, nil)
UdpRead ==
    /\ pc = "recv"
    /\ proto = "udp"
    /\ \E out \in {[rn |-> 1, rerr |-> FALSE], [rn |-> 0, rerr |-> TRUE],
                   [rn |-> 0, rerr |-> FALSE]} :
        /\ io' = [io EXCEPT !.reads = @ + 1, !.rn = out.rn, !.rerr = out.rerr]
        /\ events' = events
                     \o (IF out.rn > 0
                         THEN <<Ev("data_recv", "lifecycle", traceID, connID)>>
                         ELSE <<>>)
                     \o (IF out.rerr
                         THEN <<Ev("recv_error", "lifecycle", traceID, connID)>>
                         ELSE <<>>)
    /\ pc' = "end"
    /\ UNCHANGED <<httpVars, bufVars>>
    /\ UNCHANGED <<proto, cfg, addr, ctx, ret, uuids, traceID, connID, parsed,
                   lookups, dials, open, writes, reach, resolved, order, idx, dr>>

UdpRequestEnd ==
    /\ RequestEnd("udp")
    /\ UNCHANGED <<httpVars, bufVars>>
    /\ UNCHANGED <<proto, cfg, addr, ctx, uuids, traceID, connID, parsed, lookups, dials,
                   writes, io, reach, resolved, order, idx, dr>>

\* ------------------------------------------------------------ http.TraceURL
\* http.NewRequestWithContext: url.Parse rejects a URL that starts with a colon
NewRequestErr(u) == IF u[1] = ":" THEN "missing protocol scheme" ELSE Nil

ErrRoundTrip == "round trip failed"

\* base.RoundTrip (http.DefaultTransport) refuses a URL whose scheme is not
\* http or https before it looks up or dials anything
TransportErr(u) == IF u[1] = "http" THEN Nil ELSE ErrRoundTrip
ErrLocation == "failed to parse Location header"

StartStage(key) ==
    IF key = "dns" THEN "dns_start"
    ELSE IF key = "tls" THEN "tls_handshake_start"
    ELSE "connect_start"

DoneStage(key) ==
    IF key = "dns" THEN "dns_done"
    ELSE IF key = "tls" THEN "tls_handshake_done"
    ELSE "connect_done"

\* variant: last writer wins, every call records and returns true
RecordStartOverwrite(m, key, t) ==
    [m |-> [k \in DOMAIN m \cup {key} |-> IF k = key THEN t ELSE m[k]],
     ok |-> TRUE]

\* recordStageStart, inside the lock: first writer wins
RecordStart(m, key, t) ==
    IF key \notin DOMAIN m
    THEN [m |-> [k \in DOMAIN m \cup {key} |-> IF k = key THEN t ELSE m[k]],
          ok |-> TRUE]
    ELSE [m |-> m, ok |-> FALSE]

\* variant: the lookup leaves the key in the map
LookupKeep(m, key) ==
    [s  |-> IF key \in DOMAIN m THEN m[key] ELSE 0,
     ok |-> key \in DOMAIN m,
     m  |-> m]

\* emitStageDone, inside the lock: s, ok := stageStarts[key]; delete if ok
LookupDelete(m, key) ==
    [s  |-> IF key \in DOMAIN m THEN m[key] ELSE 0,
     ok |-> key \in DOMAIN m,
     m  |-> [k \in DOMAIN m \ {key} |-> m[k]]]

\* emitStageDone: the instant the duration is measured from
DoneSince(ok, s) == IF ok THEN s ELSE start

\* variant: the callbacks' events are emitted without the trace id
EmitStageNoTrace(stage, by, h, key) ==
    Emit(HEv(stage, "lifecycle", 0, by, h, key, start))

\* emit: lifecycle event with the overall elapsed time
EmitStage(stage, by, h, key) ==
    Emit(HEv(stage, "lifecycle", traceID, by, h, key, start))

HttpStart ==
    /\ StartRequest("http")
    /\ UNCHANGED <<inVars, ret, dialVars, httpVars, bufVars>>

HttpDryRun ==
    /\ EmitDryRun("http")
    /\ UNCHANGED <<inVars, uuids, traceID, dialVars, httpVars, bufVars>>

\* variant: the error of NewRequestWithContext is ignored
HttpNewRequestUnchecked ==
    /\ pc = "started"
    /\ proto = "http"
    /\ ~cfg.Dry
    /\ req' = AddHeaders(cfg.Headers)
    /\ start' = now
    /\ now' = now + 1
    /\ pc' = "do"
    /\ UNCHANGED <<events, ret>>
    /\ UNCHANGED <<inVars, uuids, traceID, dialVars, hop, mu, stageStarts, th, srv, bufVars>>

\* NewRequestWithContext; on success start := time.Now() and client.Do(req)
HttpNewRequest ==
    /\ pc = "started"
    /\ proto = "http"
    /\ ~cfg.Dry
    /\ IF NewRequestErr(addr) # Nil
       THEN /\ Emit(HEv("request_new", "error", traceID, 0, 0, "", 0))
            /\ Return(NewRequestErr(addr))
            /\ UNCHANGED <<start, now>>
            /\ UNCHANGED req
       ELSE /\ req' = AddHeaders(cfg.Headers)
            /\ start' = now
            /\ now' = now + 1
            /\ pc' = "do"
            /\ UNCHANGED <<events, ret>>
    /\ UNCHANGED <<inVars, uuids, traceID, dialVars, hop, mu, stageStarts, th, srv, bufVars>>

\* variant: the wrapper hands the request to the base transport without
\* emitting request_send
RoundTripNoSend ==
    /\ pc = "do"
    /\ hop' = hop + 1
    /\ events' = events
    /\ pc' = "base"
    /\ UNCHANGED <<inVars, ret, uuids, traceID, dialVars, now, start, mu,
                   stageStarts, th, req, srv, bufVars>>

\* tracingTransport.RoundTrip up to the call of base.RoundTrip
RoundTripSend ==
    /\ pc = "do"
    /\ hop' = hop + 1
    /\ LET clone == cfg.InjectTraceHeader /\ HeaderGet(req, TraceHeader) = ""
           r     == IF clone THEN HeaderSet(req, TraceHeader, TraceText(traceID)) ELSE req
           c     == Capture(r, cfg.Redact, TRUE)
       IN  /\ Emit([HEv("request_send", "lifecycle", traceID, 0, hop + 1, "", 0)
                        EXCEPT !.headers = c.captured, !.orig = r, !.wire = c.after])
           /\ req' = IF clone THEN req ELSE c.after
    /\ pc' = "base"
    /\ UNCHANGED <<inVars, ret, uuids, traceID, dialVars, now, start, mu,
                   stageStarts, th, srv, bufVars>>

\* variant: the error path goes on to emit response_headers as well
RoundTripErrorFallsThrough ==
    /\ pc \in {"base", "conn", "written", "first"}
    /\ events' = events \o <<HEv("request_error", "error", traceID, 0, hop, "", 0),
                              HEv("response_headers", "lifecycle", traceID, 0, hop, "", 0)>>
    /\ pc' = "do_err"
    /\ UNCHANGED <<inVars, ret, uuids, traceID, dialVars, httpVars, bufVars>>

\* base.RoundTrip returned an error: emit request_error, return it
RoundTripError ==
    /\ pc \in {"base", "conn", "written", "first"}
    /\ Emit(HEv("request_error", "error", traceID, 0, hop, "", 0))
    /\ pc' = "do_err"
    /\ UNCHANGED <<inVars, ret, uuids, traceID, dialVars, httpVars, bufVars>>

\* base.RoundTrip returned a response: emit response_headers, return it
RoundTripResponse ==
    /\ pc = "first"
    /\ LET c == Capture(srv.hdr, cfg.Redact, FALSE)
       IN  Emit([HEv("response_headers", "lifecycle", traceID, 0, hop, "", 0)
                    EXCEPT !.headers = c.captured, !.orig = srv.hdr, !.wire = c.after])
    /\ pc' = "client"
    /\ UNCHANGED <<inVars, ret, uuids, traceID, dialVars, httpVars, bufVars>>

\* the ClientTrace callbacks the round trip delivers on its own path
GotConn ==
    /\ pc = "base"
    /\ TransportErr(addr) = Nil
    /\ EmitStage("got_conn", 0, hop, "")
    /\ pc' = "conn"
    /\ UNCHANGED <<inVars, ret, uuids, traceID, dialVars, httpVars, bufVars>>

WroteRequest ==
    /\ pc = "conn"
    /\ EmitStage("wrote_request", 0, hop, "")
    /\ pc' = "written"
    /\ UNCHANGED <<inVars, ret, uuids, traceID, dialVars, httpVars, bufVars>>

GotFirstResponseByte ==
    /\ pc = "written"
    /\ EmitStage("got_first_response_byte", 0, hop, "")
    /\ pc' = "first"
    /\ UNCHANGED <<inVars, ret, uuids, traceID, dialVars, httpVars, bufVars>>

\* the request for the next hop: the client copies the initial request's
\* headers, CheckRedirect adds the trace header if configured and not set
RedirectRequest ==
    LET h == RedirectHeaders(AddHeaders(cfg.Headers), srv.cross)
    IN  IF cfg.InjectTraceHeader /\ HeaderGet(h, TraceHeader) = ""
        THEN HeaderSet(h, TraceHeader, TraceText(traceID))
        ELSE h

\* variant: CheckRedirect follows the redirect without emitting an event
CheckRedirectSilent ==
    /\ pc = "client"
    /\ hop < MaxHops
    /\ events' = events
    /\ req' = RedirectRequest
    /\ pc' = "do"
    /\ UNCHANGED <<inVars, ret, uuids, traceID, dialVars, hop, now, start, mu,
                   stageStarts, th, srv, bufVars>>

\* client.CheckRedirect: emit redirect, return nil; the client sends the next hop
CheckRedirect ==
    /\ pc = "client"
    /\ hop < MaxHops
    /\ Emit(HEv("redirect", "lifecycle", traceID, 0, hop, "", 0))
    /\ req' = RedirectRequest
    /\ pc' = "do"
    /\ UNCHANGED <<inVars, ret, uuids, traceID, dialVars, hop, now, start, mu,
                   stageStarts, th, srv, bufVars>>

\* the client gives up on a redirect response whose Location does not parse
BadLocation ==
    /\ pc = "client"
    /\ pc' = "do_err"
    /\ UNCHANGED <<inVars, events, ret, uuids, traceID, dialVars, httpVars, bufVars>>

\* client.Do returned an error: emit request_do, return it
DoError ==
    /\ pc = "do_err"
    /\ Emit(HEv("request_do", "error", traceID, 0, 0, "", 0))
    /\ Return(IF events[Len(events)].stage = "request_error"
              THEN ErrRoundTrip ELSE ErrLocation)
    /\ UNCHANGED <<inVars, uuids, traceID, dialVars, httpVars, bufVars>>

\* the final response: read up to 1024 body bytes, emit response_end, return nil
ResponseEnd ==
    /\ pc = "client"
    /\ LET r == ioCopyNDiscard(srv.body, BodyLimit)
       IN  Emit([HEv("response_end", "lifecycle", traceID, 0, 0, "", start)
                    EXCEPT !.n = r.n])
    /\ Return(Nil)
    /\ UNCHANGED <<inVars, uuids, traceID, dialVars, httpVars, bufVars>>

\* ---- DNSStart / ConnectStart / TLSHandshakeStart on a transport goroutine
\* recordStageStart locks mu; goroutines are numbered in the order they start
StartLock(t, key) ==
    /\ th[t].pc = "idle"
    /\ TransportErr(addr) = Nil
    /\ \A u \in 1..(t - 1) : th[u].pc # "idle"
    /\ mu = 0
    /\ mu' = t
    /\ th' = [th EXCEPT ![t] = [IdleThread EXCEPT !.pc = "s_body", !.key = key,
                                                  !.hop = hop]]
    /\ UNCHANGED <<inVars, pc, events, ret, uuids, traceID, dialVars, hop, now,
                   start, stageStarts, req, srv, bufVars>>

\* a start callback delivered by the goroutine that dials for the current hop,
\* after that goroutine's earlier callbacks have returned
DialStart(t, key) ==
    /\ pc = "base"
    /\ t <= MaxOps
    /\ \A u \in Threads : th[u].pc \in {"idle", "done"}
    /\ StartLock(t, key)

\* a start callback delivered while other goroutines are inside callbacks
RaceStart(t, key) ==
    /\ pc = "base"
    /\ StartLock(t, key)

\* variant: recordStageStart returns without releasing mu
RecordStageStartLocked(t) ==
    /\ th[t].pc = "s_body"
    /\ LET r == RecordStart(stageStarts, th[t].key, now)
       IN  /\ stageStarts' = r.m
           /\ now' = IF r.ok THEN now + 1 ELSE now
           /\ th' = [th EXCEPT ![t].pc = IF r.ok THEN "s_emit" ELSE "between"]
    /\ mu' = mu
    /\ UNCHANGED <<inVars, pc, events, ret, uuids, traceID, dialVars, hop, start,
                   req, srv, bufVars>>

\* recordStageStart: insert if absent, unlock, return whether it inserted
RecordStageStart(t) ==
    /\ th[t].pc = "s_body"
    /\ LET r == RecordStart(stageStarts, th[t].key, now)
       IN  /\ stageStarts' = r.m
           /\ now' = IF r.ok THEN now + 1 ELSE now
           /\ th' = [th EXCEPT ![t].pc = IF r.ok THEN "s_emit" ELSE "between"]
    /\ mu' = 0
    /\ UNCHANGED <<inVars, pc, events, ret, uuids, traceID, dialVars, hop, start,
                   req, srv, bufVars>>

\* if recordStageStart(...) { emit(<stage>_start, ...) }
EmitStart(t) ==
    /\ th[t].pc = "s_emit"
    /\ EmitStage(StartStage(th[t].key), t, th[t].hop, th[t].key)
    /\ th' = [th EXCEPT ![t].pc = "between"]
    /\ UNCHANGED <<inVars, pc, ret, uuids, traceID, dialVars, hop, now, start,
                   mu, stageStarts, req, srv, bufVars>>

\* ---- DNSDone / ConnectDone / TLSHandshakeDone, after the start returned
DoneLock(t) ==
    /\ th[t].pc = "between"
    /\ mu = 0
    /\ mu' = t
    /\ th' = [th EXCEPT ![t].pc = "d_body"]
    /\ UNCHANGED <<inVars, pc, events, ret, uuids, traceID, dialVars, hop, now,
                   start, stageStarts, req, srv, bufVars>>

\* emitStageDone: look up, delete, unlock
EmitStageDoneLookup(t) ==
    /\ th[t].pc = "d_body"
    /\ LET r == LookupDelete(stageStarts, th[t].key)
       IN  /\ stageStarts' = r.m
           /\ th' = [th EXCEPT ![t].pc = "d_emit", ![t].s = r.s, ![t].ok = r.ok]
    /\ mu' = 0
    /\ UNCHANGED <<inVars, pc, events, ret, uuids, traceID, dialVars, hop, now,
                   start, req, srv, bufVars>>

\* emitStageDone: emit the done event with the duration
EmitStageDone(t) ==
    /\ th[t].pc = "d_emit"
    /\ Emit(HEv(DoneStage(th[t].key), "lifecycle", traceID, t, th[t].hop,
                th[t].key, DoneSince(th[t].ok, th[t].s)))
    /\ th' = [th EXCEPT ![t].pc = "done"]
    /\ UNCHANGED <<inVars, pc, ret, uuids, traceID, dialVars, hop, now, start,
                   mu, stageStarts, req, srv, bufVars>>

Callback(t) ==
    \/ RecordStageStart(t)
    \/ EmitStart(t)
    \/ DoneLock(t)
    \/ EmitStageDoneLookup(t)
    \/ EmitStageDone(t)

\* callbacks of one dialing goroutine at a time
DialCallbacks ==
    \E t \in Threads :
        \/ \E key \in Keys : DialStart(t, key)
        \/ Callback(t)

\* callbacks of goroutines that run concurrently
RaceCallbacks ==
    \E t \in Threads :
        \/ \E key \in Keys : RaceStart(t, key)
        \/ Callback(t)

\* client.Do: the hops of one request
ClientDo ==
    \/ RoundTripSend \/ RoundTripError \/ RoundTripResponse
    \/ GotConn \/ WroteRequest \/ GotFirstResponseByte
    \/ CheckRedirect \/ BadLocation \/ DoError \/ ResponseEnd

TraceURL ==
    \/ HttpStart \/ HttpDryRun \/ HttpNewRequest
    \/ ClientDo
    \/ DialCallbacks

TcpTraceAddr ==
    \/ TcpStart \/ TcpDryRun \/ TcpConnectStart \/ TcpDialLiteral
    \/ TcpResolveAndDial \/ TcpConnectError \/ TcpConnectDone
    \/ TcpDataSend \/ TcpRead \/ TcpRequestEnd

UdpTraceAddr ==
    \/ UdpStart \/ UdpDryRun \/ UdpParse \/ UdpDialLiteral
    \/ UdpResolveAndDial \/ UdpDialError \/ UdpConnected
    \/ UdpDataSend \/ UdpRead \/ UdpRequestEnd

Next ==
    \/ TcpTraceAddr
    \/ UdpTraceAddr
    \/ DirectCall
    \/ ResolveAndDial
    \/ TraceURL

Spec == Init /\ [][Next]_vars

\* The stage correlator under concurrent callback delivery: an HTTP trace whose
\* first hop is inside base.RoundTrip, and the transport's goroutines.
InitCorr ==
    /\ proto = "http"
    /\ cfg = DefaultHTTP(FALSE)
    /\ addr = <<"http", ":", "//", "h">>
    /\ ctx = Background
    /\ pc = "base"
    /\ events = << HEv("request_start", "lifecycle", 1, 0, 0, "", 0),
                   HEv("request_send", "lifecycle", 1, 0, 1, "", 0) >>
    /\ ret = "none"
    /\ uuids = 1
    /\ traceID = 1
    /\ connID = 0
    /\ parsed = NoParse
    /\ lookups = 0
    /\ dials = <<>>
    /\ open = {}
    /\ writes = 0
    /\ io = NoIO
    /\ reach = {}
    /\ resolved = <<>>
    /\ order = <<>>
    /\ idx = 0
    /\ dr = NoDial
    /\ hop = 1
    /\ now = 1
    /\ start = 0
    /\ mu = 0
    /\ stageStarts = NoStarts
    /\ th = [t \in Threads |-> IdleThread]
    /\ req = NoHeaders
    /\ srv = DefaultServer
    /\ b = NewBufferingEmitter
    /\ heap = [a \in 0..MaxCallers |-> <<>>]
    /\ g = [t \in Callers |-> IdleCaller]

NextCorr == RaceCallbacks

SpecCorr == InitCorr /\ [][NextCorr]_vars

\* Header handling: an HTTP trace with every combination of the redaction and
\* injection options, caller headers and server answers, without the dial
\* callbacks.  The command line has two redaction flags besides the coarse
\* one, traceConfig has the one field Redact: it holds one of the two.
HeaderConfigs ==
    {c \in [Dry : {FALSE}, Data : {FALSE}, IPPref : {""}, Redact : BOOLEAN,
            InjectTraceHeader : BOOLEAN, Headers : HeaderSets,
            RedactRequests : BOOLEAN, RedactResponses : BOOLEAN,
            Timeout : {DefaultTimeout}] :
        c.Redact \in {c.RedactRequests, c.RedactResponses}}

InitHdr ==
    /\ proto = "http"
    /\ cfg \in HeaderConfigs
    /\ addr = <<"http", ":", "//", "h">>
    /\ srv \in Servers
    /\ AtEntry

NextHdr == HttpStart \/ HttpNewRequest \/ ClientDo

SpecHdr == InitHdr /\ [][NextHdr]_vars

\* Cancellation: the TCP and UDP entry points and ResolveAndDial, with a
\* caller that may cancel the context at any point between entry and return.
Cancel ==
    /\ ~ctx.cancelled
    /\ pc \notin {"init", "done"}
    /\ ctx' = [cancelled |-> TRUE, at |-> pc]
    /\ UNCHANGED <<proto, cfg, addr, pc, events, ret, uuids, traceID, dialVars,
                   httpVars, bufVars>>

InitCancel ==
    /\ InitTraceAddr \/ InitDial
    /\ cfg.IPPref \in {"", "v6"}
    /\ srv = DefaultServer
    /\ AtEntry

NextCancel ==
    \/ Cancel
    \/ TcpTraceAddr
    \/ UdpTraceAddr
    \/ DirectCall
    \/ ResolveAndDial

SpecCancel == InitCancel /\ [][NextCancel]_vars

\* Dial timeouts: ResolveAndDial called with timeouts below, at and above the
\* ceiling, zero and negative.
DialTimeouts == {-1, 0, 4, 5, 6}

InitTimeout ==
    /\ proto = "dial"
    /\ cfg \in [Dry : {FALSE}, Data : {FALSE}, IPPref : {"", "v6"},
                Timeout : DialTimeouts]
    /\ addr \in {<<"4a">>, <<"h">>}
    /\ srv = DefaultServer
    /\ AtEntry

NextTimeout == DirectCall \/ ResolveAndDial

SpecTimeout == InitTimeout /\ [][NextTimeout]_vars

\* ------------------------------------------------- event.BufferingEmitter
\* Goroutines that share one BufferingEmitter: each calls Emit up to MaxEmits
\* times, may call Events() once and may then write into the slice it got.
traceVars == <<proto, cfg, addr, ctx, pc, events, ret, uuids, traceID, dialVars,
               httpVars>>

\* the elements of a slice
Elems(s) == SubSeq(heap[s.arr], 1, s.len)

\* the event of the k-th Emit call of goroutine t
EventOf(t, k) == [by |-> t, seq |-> k]

\* variant: Emit does not wait for the mutex
EmitLockNoWait(t) ==
    /\ g[t].pc = "idle"
    /\ g[t].emits < MaxEmits
    /\ b' = [b EXCEPT !.mu = t]
    /\ g' = [g EXCEPT ![t].pc = "e_read"]
    /\ UNCHANGED <<traceVars, heap>>

\* Emit: b.mu.Lock()
EmitLock(t) ==
    /\ g[t].pc = "idle"
    /\ g[t].emits < MaxEmits
    /\ b.mu = 0
    /\ b' = [b EXCEPT !.mu = t]
    /\ g' = [g EXCEPT ![t].pc = "e_read"]
    /\ UNCHANGED <<traceVars, heap>>

\* append(b.events, e): read the slice
EmitRead(t) ==
    /\ g[t].pc = "e_read"
    /\ g' = [g EXCEPT ![t].pc = "e_write", ![t].hdr = b.events]
    /\ UNCHANGED <<traceVars, b, heap>>

\* b.events = append(b.events, e): store e behind the elements read, assign
EmitAppend(t) ==
    /\ g[t].pc = "e_write"
    /\ LET s == g[t].hdr
       IN  /\ heap' = [heap EXCEPT ![s.arr] =
                          Append(SubSeq(@, 1, s.len), EventOf(t, g[t].emits + 1))]
           /\ b' = [b EXCEPT !.events = Slice(s.arr, s.len + 1)]
    /\ g' = [g EXCEPT ![t].pc = "e_unlock"]
    /\ UNCHANGED traceVars

\* Emit: b.mu.Unlock(); return nil
EmitUnlock(t) ==
    /\ g[t].pc = "e_unlock"
    /\ b' = [b EXCEPT !.mu = 0]
    /\ g' = [g EXCEPT ![t].pc = "idle", ![t].emits = @ + 1]
    /\ UNCHANGED <<traceVars, heap>>

\* Events: b.mu.Lock()
EventsLock(t) ==
    /\ g[t].pc = "idle"
    /\ ~g[t].has
    /\ b.mu = 0
    /\ b' = [b EXCEPT !.mu = t]
    /\ g' = [g EXCEPT ![t].pc = "v_copy"]
    /\ UNCHANGED <<traceVars, heap>>

\* Events: out := make([]Event, len(b.events)); copy(out, b.events)
EventsCopy(t) ==
    /\ g[t].pc = "v_copy"
    /\ heap' = [heap EXCEPT ![t] = Elems(b.events)]
    /\ g' = [g EXCEPT ![t].pc = "v_unlock", ![t].out = Slice(t, b.events.len)]
    /\ UNCHANGED <<traceVars, b>>

\* Events: return out; the deferred b.mu.Unlock() runs
EventsReturn(t) ==
    /\ g[t].pc = "v_unlock"
    /\ b' = [b EXCEPT !.mu = 0]
    /\ g' = [g EXCEPT ![t].pc = "idle", ![t].has = TRUE,
                      ![t].snap = Elems(g[t].out)]
    /\ UNCHANGED <<traceVars, heap>>

\* the caller overwrites the first element of the slice Events() returned
MutateReturned(t) ==
    /\ g[t].pc = "idle"
    /\ g[t].has
    /\ ~g[t].mutated
    /\ g[t].out.len > 0
    /\ heap' = [heap EXCEPT ![g[t].out.arr][1] = Junk]
    /\ g' = [g EXCEPT ![t].mutated = TRUE]
    /\ UNCHANGED <<traceVars, b>>

InitBuf ==
    /\ proto = "event"
    /\ cfg = WithEmitter([Dry |-> FALSE, Data |-> FALSE, IPPref |-> ""], "buffering")
    /\ addr = <<>>
    /\ srv = DefaultServer
    /\ AtEntry

NextBuf ==
    \E t \in Callers :
        \/ EmitLock(t) \/ EmitRead(t) \/ EmitAppend(t) \/ EmitUnlock(t)
        \/ EventsLock(t) \/ EventsCopy(t) \/ EventsReturn(t)
        \/ MutateReturned(t)

SpecBuf == InitBuf /\ [][NextBuf]_vars

\* Body handling: an HTTP trace against servers whose final response has a
\* body shorter than, as long as and longer than the limit, read with and
\* without a failure; without the dial callbacks.
InitBody ==
    /\ proto = "http"
    /\ cfg = DefaultHTTP(FALSE)
    /\ addr = <<"http", ":", "//", "h">>
    /\ srv \in {[DefaultServer EXCEPT !.body = bd] : bd \in Bodies}
    /\ AtEntry

NextBody == HttpStart \/ HttpNewRequest \/ ClientDo

SpecBody == InitBody /\ [][NextBody]_vars

\* Emission failures: every entry point with a working and with a failing
\* emitter, without the dial callbacks.
InitEmit ==
    /\ \E em \in Emitters :
          \/ /\ proto \in {"tcp", "udp"}
             /\ cfg \in {WithEmitter(c, em) :
                            c \in [Dry : BOOLEAN, Data : BOOLEAN, IPPref : {""}]}
             /\ addr \in {<<"4a", ":", "p">>, <<"h", ":", "p">>}
          \/ /\ proto = "dial"
             /\ cfg = WithEmitter([Dry |-> FALSE, Data |-> FALSE, IPPref |-> "",
                                   Timeout |-> DefaultTimeout], em)
             /\ addr \in {<<"4a">>, <<"h">>}
          \/ /\ proto = "http"
             /\ cfg \in {WithEmitter(DefaultHTTP(dry), em) : dry \in BOOLEAN}
             /\ addr \in URLs
    /\ srv = DefaultServer
    /\ AtEntry

NextEmit ==
    \/ TcpTraceAddr
    \/ UdpTraceAddr
    \/ DirectCall
    \/ ResolveAndDial
    \/ HttpStart \/ HttpDryRun \/ HttpNewRequest
    \/ ClientDo

SpecEmit == InitEmit /\ [][NextEmit]_vars

\* Termination of client.Do: an HTTP trace under every timeout option, against
\* servers whose redirects may go on for ever.  The log keeps the events of
\* the first MaxHops hops; later hops are followed without being recorded.

\* WithTimeout(d): 0 is http.Client's "no timeout"
Timeouts == {0, DefaultTimeout}

\* the states in which tracingTransport.RoundTrip is inside base.RoundTrip
InRoundTrip == {"base", "conn", "written", "first"}

\* http.Client{Timeout: cfg.Timeout}: the client's timer cancels the request
\* of the hop in flight, base.RoundTrip returns the error
ClientTimeout ==
    /\ cfg.Timeout > 0
    /\ \/ pc \in InRoundTrip
       \/ pc = "client" /\ hop = MaxHops
    /\ Emit(HEv("request_error", "error", traceID, 0, hop, "", 0))
    /\ pc' = "do_err"
    /\ UNCHANGED <<inVars, ret, uuids, traceID, dialVars, httpVars, bufVars>>

\* a redirect past the hops the log keeps: CheckRedirect returns nil, the
\* client sends the next hop to the other URL of the cycle and gets its
\* response
RedirectBeyond ==
    /\ pc = "client"
    /\ hop = MaxHops
    /\ srv' = [srv EXCEPT !.at = IF @ = "A" THEN "B" ELSE "A"]
    /\ UNCHANGED <<inVars, pc, events, ret, uuids, traceID, dialVars, hop, now,
                   start, mu, stageStarts, th, req, bufVars>>

InitLive ==
    /\ proto = "http"
    /\ cfg \in {[DefaultHTTP(FALSE) EXCEPT !.Timeout = d] : d \in Timeouts}
    /\ addr = <<"http", ":", "//", "h">>
    /\ srv \in Servers
    /\ AtEntry

NextLive ==
    \/ HttpStart \/ HttpNewRequest
    \/ ClientDo
    \/ ClientTimeout
    \/ RedirectBeyond

\* the goroutine of TraceURL keeps running and the server keeps answering;
\* a timer that is armed fires
SpecLive ==
    /\ InitLive
    /\ [][NextLive]_vars
    /\ WF_vars(NextLive)
    /\ SF_vars(ClientTimeout)

\* ============================================================= properties
EventIdx == 1..Len(events)

NumStage(st) == Cardinality({i \in EventIdx : events[i].stage = st})

NumErrors == Cardinality({i \in EventIdx : events[i].etype = "error"})

\* the events emitted by the goroutine that runs the entry point
MainEvents == SelectSeq(events, LAMBDA e : e.by = 0)

LastMain == MainEvents[Len(MainEvents)]

StageSeq == [i \in EventIdx |-> events[i].stage]

Returned == pc = "done" /\ proto # "dial"

IsTerminal(e) == e.stage = "request_end" \/ e.etype = "error"

NumTerminal == Cardinality({i \in EventIdx : IsTerminal(events[i])})

C2_OneErrorEvent ==
    (Returned /\ ret # Nil) => NumErrors = 1

\* C3: once the entry point has started, the first event is request_start and
\* it is the only request_start; nothing is emitted before it.
C3_RequestStartFirst ==
    proto # "dial" =>
        IF pc = "init"
        THEN events = <<>>
        ELSE /\ events # <<>>
             /\ events[1].stage = "request_start"
             /\ NumStage("request_start") = 1

C3_Witness ==
    /\ Returned
    /\ Len(events) >= 4
    /\ events[2].stage = "connect_start"

\* C4: a dry run emits exactly request_start, dry_run; it makes no lookup, no
\* dial, no round trip, no callback and no write, and returns nil.
C4_DryRun ==
    (cfg.Dry /\ proto # "dial") =>
        /\ lookups = 0
        /\ dials = <<>>
        /\ writes = 0
        /\ hop = 0
        /\ \A t \in Threads : th[t].pc = "idle"
        /\ pc \in {"init", "started", "done"}
        /\ pc = "done" =>
              /\ StageSeq = <<"request_start", "dry_run">>
              /\ ret = Nil

C4_Witness ==
    /\ cfg.Dry
    /\ pc = "done"
    /\ proto = "udp"
    /\ Len(events) = 2

DialStages ==
    {"dns_start", "dns_done", "connect_start", "connect_done",
     "tls_handshake_start", "tls_handshake_done", "got_conn"}

\* position of the first event of hop h with stage st, 0 if there is none
Pos(h, st) ==
    IF \E i \in EventIdx : events[i].hop = h /\ events[i].stage = st
    THEN CHOOSE i \in EventIdx :
            /\ events[i].hop = h /\ events[i].stage = st
            /\ \A j \in 1..(i - 1) : ~(events[j].hop = h /\ events[j].stage = st)
    ELSE 0

Quiescent == \A t \in Threads : th[t].pc \in {"idle", "done"}

NumKeyStage(k, st) ==
    Cardinality({i \in EventIdx : events[i].key = k /\ events[i].stage = st})

\* C6 as stated: when every delivered start callback has been followed by its
\* done callback, each key has as many done events as start events.
C6_StartDonePaired ==
    Quiescent =>
        \A k \in Keys : NumKeyStage(k, DoneStage(k)) = NumKeyStage(k, StartStage(k))

\* C7 as stated: a connect_done (tls_handshake_done) event is preceded by the
\* connect_start (tls_handshake_start) event of the same key.
C7_StartBeforeDone ==
    \A j \in EventIdx : \A k \in {"connect:a", "tls"} :
        (events[j].key = k /\ events[j].stage = DoneStage(k)) =>
            \E i \in 1..(j - 1) :
                events[i].key = k /\ events[i].stage = StartStage(k)

\* a step in which goroutine t leaves position p
Leaves(t, p) == th[t].pc = p /\ th'[t].pc # p

\* C8: recordStageStart records the time only if the key is absent and returns
\* true only then; a recorded time is never overwritten while the key is
\* present; only a call that recorded emits a start event; the done event's
\* duration is measured from the time the lookup found.
C8_Step ==
    /\ \A k \in DOMAIN stageStarts \cap DOMAIN stageStarts' :
          stageStarts'[k] = stageStarts[k]
    /\ \A t \in Threads :
          /\ Leaves(t, "s_body") =>
                /\ th'[t].pc = "s_emit" <=> th[t].key \notin DOMAIN stageStarts
                /\ th[t].key \in DOMAIN stageStarts'
                /\ th[t].key \notin DOMAIN stageStarts =>
                      stageStarts'[th[t].key] = now
          /\ (Len(events') > Len(events)
              /\ events'[Len(events')].by = t
              /\ events'[Len(events')].stage = StartStage(th[t].key)) =>
                  Leaves(t, "s_emit")
          /\ (Leaves(t, "d_body") /\ th[t].key \in DOMAIN stageStarts) =>
                th'[t].s = stageStarts[th[t].key]
          /\ (Leaves(t, "d_emit") /\ th[t].ok) =>
                events'[Len(events')].since = th[t].s

C8_RecordStartIdempotent == [][C8_Step]_vars

\* two calls for one key before the done: one start event, measured from the
\* first call
C8_Witness ==
    \E t, u \in Threads :
        /\ t # u
        /\ th[t].key = th[u].key
        /\ th[t].pc = "done" /\ th[t].ok /\ th[t].s = 1
        /\ th[u].pc = "between"
        /\ now = 2
        /\ NumKeyStage(th[t].key, StartStage(th[t].key)) = 1
        /\ NumKeyStage(th[t].key, DoneStage(th[t].key)) = 1

NumDoneBy(t) ==
    Cardinality({i \in EventIdx :
        events[i].by = t /\ events[i].stage = DoneStage(events[i].key)})

\* C9: every emitStageDone call emits exactly one event; its duration is
\* measured from the recorded start if there is one and from the overall
\* start otherwise; the lookup leaves the key absent from the map, and a
\* recordStageStart that finds the key absent records again.
C9_Step ==
    \A t \in Threads :
        /\ Leaves(t, "d_body") =>
              /\ th'[t].pc = "d_emit"
              /\ th'[t].ok <=> th[t].key \in DOMAIN stageStarts
              /\ th[t].key \notin DOMAIN stageStarts'
        /\ Leaves(t, "d_emit") =>
              /\ th'[t].pc = "done"
              /\ events' = Append(events, events'[Len(events')])
              /\ events'[Len(events')].by = t
              /\ events'[Len(events')].stage = DoneStage(th[t].key)
              /\ events'[Len(events')].since =
                    IF th[t].ok THEN th[t].s ELSE start
        /\ th[t].pc = "d_emit" => NumDoneBy(t) = 0
        /\ th'[t].pc = "done" => NumDoneBy(t)' = 1
        /\ (Leaves(t, "s_body") /\ th[t].key \notin DOMAIN stageStarts) =>
              th[t].key \in DOMAIN stageStarts'

C9_EmitDoneAlwaysEmits == [][C9_Step]_vars

\* a done with a recorded start, then a done for the same key without one
C9_Witness ==
    /\ Quiescent
    /\ \E t, u \in Threads :
        /\ th[t].pc = "done" /\ th[t].ok
        /\ th[u].pc = "done" /\ ~th[u].ok
        /\ th[t].key = th[u].key
        /\ NumDoneBy(t) = 1 /\ NumDoneBy(u) = 1

\* the IP literal a target string holds, Nil if it holds none
TargetIP(a) ==
    IF \E i \in 1..Len(a) : a[i] \in IPs
    THEN a[CHOOSE i \in 1..Len(a) : a[i] \in IPs]
    ELSE Nil

\* the address of a literal target: the literal, its zone if it has one, and
\* the port given or the default port
LiteralAddr(a) ==
    LET host == IF Contains(a, "%") THEN <<TargetIP(a), "%", "z">> ELSE <<TargetIP(a)>>
        port == IF a[Len(a)] = "p" THEN <<"p">> ELSE DefaultPort
    IN  IF TargetIP(a) \in V6Texts \/ Contains(a, "%")
        THEN <<"[">> \o host \o <<"]", ":">> \o port
        ELSE host \o <<":">> \o port

DialDone == pc \in {"dialed", "send", "recv", "end", "done"} /\ ~cfg.Dry

\* C10 as stated: for a literal target of TraceAddr or a literal host handed
\* to ResolveAndDial, with or without zone and whatever the preference, no
\* lookup is made and exactly one dial is made, to the literal address, on the
\* network of the literal's own family.
C10_LiteralBypassesPreference ==
    (TargetIP(addr) # Nil /\ proto # "http") =>
        /\ lookups = 0
        /\ Len(dials) <= 1
        /\ DialDone =>
              /\ Len(dials) = 1
              /\ dials[1].addr = LiteralAddr(addr)
              /\ dials[1].network =
                    NetworkBase \o (IF TargetIP(addr) \in V4Texts THEN "4" ELSE "6")

Pos1(sq, x) == CHOOSE i \in 1..Len(sq) : sq[i] = x

IsV4(ip) == ip \in V4Texts

\* C11: the try order is a permutation of the resolved list that keeps the
\* resolver's order within each family; with preference v6 (in any case)
\* every IPv6 address precedes every IPv4 address, with v4 the reverse, and
\* with any other value the try order is the resolved list itself.
C11_TryOrder ==
    resolved # <<>> =>
        /\ Len(order) = Len(resolved)
        /\ {order[i] : i \in 1..Len(order)} = {resolved[i] : i \in 1..Len(resolved)}
        /\ \A i, j \in 1..Len(order) :
              (i < j /\ IsV4(order[i]) = IsV4(order[j]))
                  => Pos1(resolved, order[i]) < Pos1(resolved, order[j])
        /\ cfg.IPPref \in {"v6", "V6"} =>
              \A i, j \in 1..Len(order) :
                  (~IsV4(order[i]) /\ IsV4(order[j])) => i < j
        /\ cfg.IPPref = "v4" =>
              \A i, j \in 1..Len(order) :
                  (IsV4(order[i]) /\ ~IsV4(order[j])) => i < j
        /\ cfg.IPPref \notin {"v6", "V6", "v4"} => order = resolved

C11_Witness ==
    /\ cfg.IPPref = "V6"
    /\ Len(resolved) = 2
    /\ IsV4(resolved[1]) /\ ~IsV4(resolved[2])
    /\ order = <<resolved[2], resolved[1]>>
    /\ pc = "done"

\* C12: the candidates are dialed one after the other in try order, each at
\* most once; no candidate is dialed after a success; the returned
\* connection and chosen IP are those of the first candidate whose dial
\* succeeded; with preference v4 (v6), if a resolved address of that family
\* is reachable, the chosen IP and family are of that family.
C12_SequentialFirstSuccess ==
    resolved # <<>> =>
        /\ Len(dials) <= Len(order)
        /\ \A i \in 1..Len(dials) :
              /\ TargetIP(dials[i].addr) = order[i]
              /\ dials[i].ok => i = Len(dials)
        /\ Cardinality(open) <= 1
        /\ (pc # "rad_loop" /\ dr.err = Nil) =>
              /\ dials # <<>>
              /\ dials[Len(dials)].ok
              /\ dr.conn = Len(dials)
              /\ dr.chosenIP = order[Len(dials)]
              /\ dr.fam = IF IsV4(dr.chosenIP) THEN "v4" ELSE "v6"
              /\ \A i \in 1..(Len(dials) - 1) : order[i] \notin reach
        /\ (pc # "rad_loop" /\ cfg.IPPref = "v4"
            /\ \E ip \in reach : IsV4(ip)) =>
              (dr.err = Nil /\ IsV4(dr.chosenIP) /\ dr.fam = "v4")
        /\ (pc # "rad_loop" /\ cfg.IPPref \in {"v6", "V6"}
            /\ \E ip \in reach : ~IsV4(ip)) =>
              (dr.err = Nil /\ ~IsV4(dr.chosenIP) /\ dr.fam = "v6")

C12_Witness ==
    /\ cfg.IPPref = "v6"
    /\ Len(resolved) = 2
    /\ IsV4(resolved[1]) /\ ~IsV4(resolved[2])
    /\ reach = {resolved[1]}
    /\ Len(dials) = 2
    /\ ~dials[1].ok /\ dials[2].ok
    /\ dr.chosenIP = resolved[1]
    /\ pc = "done"

\* ResolveAndDial has returned on its host-name path
HostReturned == lookups = 1 /\ pc # "rad_loop"

\* C13: on the host-name path ResolveAndDial returns the deadline-exceeded
\* error exactly when the lookup answered and every dial failed, and then
\* returns no connection and the whole resolved list; when the lookup fails
\* it returns the resolver's error and dials nothing.
C13_DeadlineExceeded ==
    HostReturned =>
        /\ dr.err = DeadlineExceeded <=>
              (resolved # <<>> /\ \A i \in 1..Len(dials) : ~dials[i].ok)
        /\ dr.err = DeadlineExceeded =>
              /\ dr.conn = 0
              /\ dr.chosenIP = Nil
              /\ dr.resolved = resolved
              /\ Len(dials) = Len(resolved)
        /\ resolved = <<>> =>
              /\ dr.err = ErrLookup
              /\ dr.conn = 0
              /\ dials = <<>>
        /\ proto = "dial" => ret = dr.err

C13_Witness ==
    /\ proto = "dial"
    /\ pc = "done"
    /\ Len(resolved) = 2
    /\ Len(dials) = 2
    /\ ret = DeadlineExceeded

\* C14 as stated: a tcp or udp trace that fails on the lookup ends with a
\* resolve_error event, one that fails on the dials ends with connect_error
\* (tcp) or dial_error (udp).
C14_ErrorStages ==
    (proto \in {"tcp", "udp"} /\ pc = "done" /\ ret # Nil) =>
        /\ events[Len(events)].etype = "error"
        /\ ret = ErrLookup => events[Len(events)].stage = "resolve_error"
        /\ ret \in {ErrDial, DeadlineExceeded} =>
              events[Len(events)].stage =
                  IF proto = "tcp" THEN "connect_error" ELSE "dial_error"

HopStages == {"request_send", "response_headers", "redirect"}

HopSeq == SelectSeq(events, LAMBDA e : e.stage \in HopStages)

\* C15: request_send, response_headers and redirect events alternate in that
\* order, hop by hop; a trace that ends well after k hops has k request_send,
\* k response_headers and k - 1 redirect events, one between consecutive
\* hops and none after the last response_headers.
C15_RedirectChain ==
    proto = "http" =>
        /\ \A i \in 1..Len(HopSeq) :
              /\ HopSeq[i].stage =
                    IF i % 3 = 1 THEN "request_send"
                    ELSE IF i % 3 = 2 THEN "response_headers"
                    ELSE "redirect"
              /\ HopSeq[i].hop = (i + 2) \div 3
        /\ (pc = "done" /\ ret = Nil /\ ~cfg.Dry) =>
              /\ Len(HopSeq) = 3 * hop - 1
              /\ NumStage("request_send") = hop
              /\ NumStage("response_headers") = hop
              /\ NumStage("redirect") = hop - 1
              /\ HopSeq[Len(HopSeq)].stage = "response_headers"

C15_Witness ==
    /\ proto = "http"
    /\ pc = "done"
    /\ ret = Nil
    /\ hop = MaxHops
    /\ NumStage("redirect") = MaxHops - 1

SendEvents == {i \in EventIdx : events[i].stage = "request_send"}

RespEvents == {i \in EventIdx : events[i].stage = "response_headers"}

\* the headers the caller set on the request
CallerHeaders == AddHeaders(cfg.Headers)

\* C16 as stated: in every hop, a request that already carries X-Trace-Id is
\* sent and captured with the caller's value; otherwise, with injection
\* enabled the header sent and captured is the trace id, and with injection
\* disabled the request has no such header.
C16_TraceHeader ==
    \A i \in SendEvents :
        LET e == events[i]
        IN  IF TraceHeader \in DOMAIN CallerHeaders
            THEN /\ TraceHeader \in DOMAIN e.wire
                 /\ e.wire[TraceHeader] = CallerHeaders[TraceHeader]
                 /\ e.headers[TraceHeader] = CallerHeaders[TraceHeader]
            ELSE IF cfg.InjectTraceHeader
            THEN /\ TraceHeader \in DOMAIN e.wire
                 /\ e.wire[TraceHeader] = <<TraceText(e.trace)>>
                 /\ e.headers[TraceHeader] = <<TraceText(e.trace)>>
            ELSE /\ TraceHeader \notin DOMAIN e.wire
                 /\ TraceHeader \notin DOMAIN e.headers

\* C18: with redaction on, request_send captures Authorization and Cookie as
\* the placeholder and response_headers captures Set-Cookie as the
\* placeholder, every other header with its own value; with redaction off
\* every header is captured with its own value.
C18_Redaction ==
    /\ \A i \in SendEvents :
          LET e == events[i]
          IN  /\ DOMAIN e.headers = DOMAIN e.orig
              /\ \A k \in DOMAIN e.orig :
                    e.headers[k] =
                        IF cfg.Redact /\ k \in {"Authorization", "Cookie"}
                        THEN <<Redacted>> ELSE e.orig[k]
    /\ \A i \in RespEvents :
          LET e == events[i]
          IN  /\ DOMAIN e.headers = DOMAIN e.orig
              /\ \A k \in DOMAIN e.orig :
                    e.headers[k] =
                        IF cfg.Redact /\ k = "Set-Cookie"
                        THEN <<Redacted>> ELSE e.orig[k]

C18_Witness ==
    /\ cfg.Redact
    /\ \E i \in SendEvents :
          /\ "Authorization" \in DOMAIN events[i].orig
          /\ events[i].orig["Authorization"] = <<"s1">>
          /\ events[i].headers["Authorization"] = <<Redacted>>
          /\ events[i].headers["X-Custom"] = <<"v">>
    /\ \E i \in RespEvents :
          /\ "Set-Cookie" \in DOMAIN events[i].orig
          /\ events[i].headers["Set-Cookie"] = <<Redacted>>
          /\ events[i].headers["Content-Type"] = <<"t">>

\* C19 as stated: request_send headers are redacted iff the request toggle
\* is on, response_headers headers are redacted iff the response toggle is on.
C19_IndependentToggles ==
    /\ \A i \in SendEvents :
          \A k \in DOMAIN events[i].orig \cap {"Authorization", "Cookie"} :
              events[i].headers[k] = <<Redacted>> <=> cfg.RedactRequests
    /\ \A i \in RespEvents :
          \A k \in DOMAIN events[i].orig \cap {"Set-Cookie"} :
              events[i].headers[k] = <<Redacted>> <=> cfg.RedactResponses

\* C20: the capture leaves the Header of the request handed to the base
\* transport and the Header of the response returned to the client as they
\* were before it.
C20_WireUnchanged ==
    \A i \in SendEvents \cup RespEvents : events[i].wire = events[i].orig

C20_Witness ==
    /\ cfg.Redact
    /\ pc = "done"
    /\ ret = Nil
    /\ \E i \in SendEvents :
          /\ "Cookie" \in DOMAIN events[i].wire
          /\ events[i].wire["Cookie"] = <<"s2">>
          /\ events[i].headers["Cookie"] = <<Redacted>>
    /\ \E i \in RespEvents :
          /\ "Set-Cookie" \in DOMAIN events[i].wire
          /\ events[i].wire["Set-Cookie"] = <<"s3">>
          /\ events[i].headers["Set-Cookie"] = <<Redacted>>

PreDialStages == {"request_start", "connect_start", "dry_run"}

PostDialStages ==
    {"connect_done", "connected", "data_send", "data_recv", "recv_error",
     "request_end"}

\* C21: in a TCP or UDP trace request_start, connect_start, dry_run and the
\* error events carry no conn_id; connect_done / connected, data_send,
\* data_recv, recv_error and request_end all carry the one conn_id of the
\* trace, which is not empty and is the only identifier generated besides the
\* trace id.
C21_ConnID ==
    proto \in {"tcp", "udp"} =>
        /\ \A i \in EventIdx :
              /\ (events[i].stage \in PreDialStages \/ events[i].etype = "error")
                    => events[i].conn = 0
              /\ events[i].stage \in PostDialStages
                    => /\ events[i].conn = connID
                       /\ connID # 0
                       /\ connID # events[i].trace
        /\ uuids = (IF traceID # 0 THEN 1 ELSE 0) + (IF connID # 0 THEN 1 ELSE 0)

C21_Witness ==
    /\ proto = "udp"
    /\ pc = "done"
    /\ NumStage("data_send") = 1
    /\ NumStage("data_recv") = 1
    /\ connID # 0
    /\ \A i \in 2..Len(events) : events[i].conn = connID

\* the stages of an HTTP hop that are emitted on its connection
OnConnStages ==
    {"got_conn", "wrote_request", "got_first_response_byte", "response_headers",
     "response_end"}

\* C22 as stated: in an HTTP trace got_conn and the later events of the hop
\* carry a non-empty conn_id.
C22_HttpConnID ==
    proto = "http" =>
        \A i \in EventIdx : events[i].stage \in OnConnStages => events[i].conn # 0

\* an event as the state machine sees it: its stage, or "error"
Shape == [i \in EventIdx |-> IF events[i].etype = "error" THEN "error"
                             ELSE events[i].stage]

IsPrefix(s, l) == Len(s) <= Len(l) /\ SubSeq(l, 1, Len(s)) = s

\* the stage sequences of the TCP state machine, with and without payload
TcpAccepted(data) ==
    LET pre == <<"request_start", "connect_start">>
        mid == IF data THEN {<<"data_send">>, <<"data_send", "data_recv">>}
               ELSE {<<>>}
    IN  {pre \o <<"error">>}
        \cup {pre \o <<"connect_done">> \o m \o <<"request_end">> : m \in mid}

\* C23: a non-dry-run TCP trace is, while it runs, a proper prefix of a
\* sequence of the state machine and, when it has returned, such a sequence.
C23_TcpStateMachine ==
    (proto = "tcp" /\ ~cfg.Dry /\ pc # "init") =>
        IF pc = "done"
        THEN Shape \in TcpAccepted(cfg.Data)
        ELSE \E a \in TcpAccepted(cfg.Data) : IsPrefix(Shape, a) /\ Len(Shape) < Len(a)

C23_Witness ==
    /\ proto = "tcp"
    /\ pc = "done"
    /\ Shape = <<"request_start", "connect_start", "connect_done", "data_send",
                 "data_recv", "request_end">>

\* C24 as stated: in a non-dry-run UDP trace a connect_start event follows
\* request_start before the dial is attempted.
C24_UdpConnectStart ==
    (proto = "udp" /\ ~cfg.Dry /\ (dials # <<>> \/ lookups > 0)) =>
        /\ Len(events) >= 2
        /\ events[2].stage = "connect_start"

\* C25: a TCP trace with a payload whose connection was established writes
\* once, emits data_send, reads once, emits data_recv exactly if the read
\* returned bytes, then emits request_end and returns nil, whether or not the
\* write or the read failed.
C25_TcpPayload ==
    (proto = "tcp" /\ cfg.Data /\ connID # 0) =>
        /\ pc \in {"end", "done"} => writes = 1 /\ io.reads = 1
        /\ pc = "done" =>
              /\ Shape = <<"request_start", "connect_start", "connect_done",
                           "data_send">>
                         \o (IF io.rn > 0 THEN <<"data_recv">> ELSE <<>>)
                         \o <<"request_end">>
              /\ ret = Nil

C25_Witness ==
    /\ proto = "tcp"
    /\ pc = "done"
    /\ io.werr
    /\ io.rerr
    /\ NumStage("data_send") = 1
    /\ NumStage("data_recv") = 0
    /\ ret = Nil

\* C26: in a UDP trace a read that failed is reported by one recv_error event
\* of type lifecycle, no event of type error follows the connection, and the
\* trace goes on to request_end and returns nil.
C26_RecvErrorNotFatal ==
    (proto = "udp" /\ io.reads = 1 /\ io.rerr) =>
        /\ NumStage("recv_error") = 1
        /\ \A i \in EventIdx :
              events[i].stage = "recv_error" => events[i].etype = "lifecycle"
        /\ NumErrors = 0
        /\ pc \in {"end", "done"}
        /\ pc = "done" =>
              /\ events[Len(events)].stage = "request_end"
              /\ events[Len(events) - 1].stage = "recv_error"
              /\ ret = Nil

C26_Witness ==
    /\ proto = "udp"
    /\ pc = "done"
    /\ io.rerr
    /\ NumStage("recv_error") = 1
    /\ ret = Nil

\* C27 as stated: in a finished UDP trace a data_send event is followed,
\* before request_end, by exactly one data_recv or recv_error event.
C27_RecvOrError ==
    (proto = "udp" /\ pc = "done" /\ NumStage("data_send") = 1) =>
        /\ NumStage("data_recv") + NumStage("recv_error") = 1
        /\ events[Len(events) - 1].stage \in {"data_recv", "recv_error"}
        /\ events[Len(events) - 2].stage = "data_send"

\* C28 as stated, for a cancellation that arrives while the write or the read
\* on the connection is the operation in flight: the trace ends with an error
\* event and a non-nil result, and no data_recv is emitted after it.
C28_CancelAborts ==
    (proto \in {"tcp", "udp"} /\ pc = "done" /\ ctx.cancelled
       /\ ctx.at \in {"send", "recv"}) =>
        /\ ret # Nil
        /\ events[Len(events)].etype = "error"
        /\ NumStage("data_recv") = 0

\* a cancellation that arrives before the lookup or the dial makes them fail:
\* the trace ends with one error event and the error is returned
C28_DialHonoursCancel ==
    (proto \in {"tcp", "udp"} /\ ~cfg.Dry /\ pc = "done" /\ ctx.cancelled
       /\ ctx.at \in {"started", "parsed", "rad"}) =>
        /\ ret # Nil
        /\ events[Len(events)].etype = "error"
        /\ connID = 0
        /\ open = {}

\* the stages of a TCP or UDP trace as the options and the network's answers
\* (the dial result, the bytes and the error of the read) determine them
NetTrace ==
    IF cfg.Dry THEN <<"request_start", "dry_run">>
    ELSE <<"request_start">>
         \o (IF proto = "tcp" THEN <<"connect_start">> ELSE <<>>)
         \o (IF dr.err # Nil
             THEN <<IF proto = "tcp" THEN "connect_error" ELSE "dial_error">>
             ELSE <<IF proto = "tcp" THEN "connect_done" ELSE "connected">>
                  \o (IF cfg.Data
                      THEN <<"data_send">>
                           \o (IF io.rn > 0 THEN <<"data_recv">> ELSE <<>>)
                           \o (IF proto = "udp" /\ io.rerr
                               THEN <<"recv_error">> ELSE <<>>)
                      ELSE <<>>)
                  \o <<"request_end">>)

\* the result the network's answers determine
NetResult == IF cfg.Dry THEN Nil ELSE dr.err

\* C29: whether the emitter's Emit calls return nil or an error, a finished
\* TCP or UDP trace holds exactly the events its options and the network's
\* answers determine and returns the result they determine; a finished HTTP
\* trace starts with request_start, holds a request_send for every round
\* trip, and returns nil exactly if it ends with dry_run or response_end and
\* otherwise the error of the request or of the round trip.
C29_EmitFailureIgnored ==
    (pc = "done" /\ proto # "dial") =>
        IF proto \in {"tcp", "udp"}
        THEN /\ StageSeq = NetTrace
             /\ ret = NetResult
        ELSE /\ events # <<>>
             /\ events[1].stage = "request_start"
             /\ NumStage("request_send") = hop
             /\ (ret = Nil) <=>
                   (events[Len(events)].stage \in {"dry_run", "response_end"})
             /\ ret \in {Nil, NewRequestErr(addr), ErrRoundTrip, ErrLocation}

C29_Witness ==
    /\ EmitterOf(cfg) = "failing"
    /\ proto = "tcp"
    /\ pc = "done"
    /\ ret = Nil
    /\ StageSeq = <<"request_start", "connect_start", "connect_done",
                    "data_send", "data_recv", "request_end">>
    /\ \A i \in EventIdx : EmitResult(events[i]) = ErrSink

NoCallbacks == stageStarts = NoStarts /\ \A t \in Threads : th[t] = IdleThread

\* C31 as stated: a trace (not a dry run) of a target that is not a valid
\* http URL, once returned, consists of request_start and the request_new
\* error, has sent nothing and returns the request-construction error.
C31_Original ==
    (/\ proto = "http" /\ ~cfg.Dry /\ pc = "done"
     /\ (NewRequestErr(addr) # Nil \/ TransportErr(addr) # Nil))
    => /\ StageSeq = <<"request_start", "request_new">>
       /\ NumStage("request_send") = 0

\* C31 (amended): when http.NewRequestWithContext rejects the target URL, the
\* trace (not a dry run) emits request_start and then the request_new error
\* and nothing else, never enters the round trip (no request_send, no lookup,
\* no dial, no callback) and returns the error of NewRequestWithContext.
C31_InvalidURL ==
    (proto = "http" /\ ~cfg.Dry /\ NewRequestErr(addr) # Nil)
    => /\ IsPrefix(StageSeq, <<"request_start", "request_new">>)
       /\ hop = 0 /\ lookups = 0 /\ dials = <<>> /\ NoCallbacks
       /\ pc \in {"init", "started", "done"}
       /\ pc = "done" =>
             /\ StageSeq = <<"request_start", "request_new">>
             /\ events[2].etype = "error"
             /\ ret = NewRequestErr(addr)

C31_Witness ==
    /\ proto = "http"
    /\ NewRequestErr(addr) # Nil
    /\ pc = "done"
    /\ ret = NewRequestErr(addr)
    /\ StageSeq = <<"request_start", "request_new">>


\* a target with a port separator that net.SplitHostPort cannot split (too
\* many colons) and that is no IP literal either
Malformed(a) == Contains(a, ":") /\ SplitHostPort(a).err # Nil

\* C32: for a malformed TCP/UDP target no DNS lookup and no dial is
\* attempted, and the call (not a dry run) returns an error.
C32_MalformedRejected ==
    (proto \in {"tcp", "udp"} /\ Malformed(addr))
    => /\ lookups = 0
       /\ dials = <<>>
       /\ (pc = "done" /\ ~cfg.Dry) => ret # Nil


\* the dials of ResolveAndDial's loop over the resolved candidates
LoopDials == IF resolved = <<>> THEN {} ELSE 1..Len(dials)

Min(x, y) == IF x < y THEN x ELSE y

\* C33: every attempt on a resolved candidate is given the smaller of the
\* caller's timeout and 5 seconds, 5 seconds when the caller's timeout is zero
\* or negative; it is the same for every candidate and never above 5 seconds.
C33_PerAttemptTimeout ==
    \A i \in LoopDials :
        /\ dials[i].timeout = IF cfg.Timeout <= 0 THEN 5 ELSE Min(cfg.Timeout, 5)
        /\ dials[i].timeout <= 5
        /\ \A j \in LoopDials : dials[j].timeout = dials[i].timeout

C33_Witness ==
    /\ Len(dials) = 2
    /\ resolved # <<>>
    /\ cfg.Timeout = 6
    /\ dials[1].timeout = 5 /\ dials[2].timeout = 5


\* the number of places of the buffer that hold e
InBuffer(e) ==
    Cardinality({i \in 1..b.events.len : heap[b.events.arr][i] = e})

\* C34: whatever the interleaving, the buffer holds every event whose Emit
\* call has returned exactly once and no event twice, the events of one
\* goroutine in the order of its calls, and nothing but emitted events (so
\* writing into a slice that Events() returned does not reach the buffer);
\* a slice returned by Events() keeps its elements while other goroutines emit.
C34_BufferingEmitter ==
    /\ \A t \in Callers : \A k \in 1..MaxEmits :
          /\ k <= g[t].emits => InBuffer(EventOf(t, k)) = 1
          /\ InBuffer(EventOf(t, k)) <= 1
    /\ \A i, j \in 1..b.events.len :
          LET x == heap[b.events.arr][i]
              y == heap[b.events.arr][j]
          IN  (i < j /\ x.by = y.by) => x.seq < y.seq
    /\ InBuffer(Junk) = 0
    /\ \A t \in Callers :
          (g[t].has /\ ~g[t].mutated) => Elems(g[t].out) = g[t].snap

C34_Witness ==
    /\ \A t \in Callers : g[t].pc = "idle" /\ g[t].emits = MaxEmits
    /\ b.events.len = MaxCallers * MaxEmits
    /\ heap[b.events.arr][1].by # heap[b.events.arr][2].by
    /\ g[1].has /\ g[1].mutated /\ g[1].out.len < b.events.len
    /\ g[2].has /\ ~g[2].mutated /\ g[2].out.len = 1


\* goroutine t is about to call, or is inside, cfg.Emitter.Emit
InEmit(t) == th[t].pc \in {"s_emit", "d_emit"}

\* goroutine t is between mu.Lock() and mu.Unlock()
InCritical(t) == th[t].pc \in {"s_body", "d_body"}

\* C35: a goroutine inside Emit does not hold mu; mu is held exactly by the
\* goroutine inside the critical section, so at most one is inside; and while
\* goroutines sit inside Emit and none is in the critical section, a goroutine
\* that wants the lock for its lookup can take it.
C35_NoEmitUnderLock ==
    /\ \A t \in Threads : InEmit(t) => mu # t
    /\ \A t \in Threads : InCritical(t) <=> mu = t
    /\ \A t, u \in Threads : (InCritical(t) /\ InCritical(u)) => t = u
    /\ \A t, u \in Threads :
          (/\ t # u /\ InEmit(t) /\ th[u].pc = "between"
           /\ \A v \in Threads : ~InCritical(v))
          => ENABLED DoneLock(u)

C35_Witness ==
    \E t, u \in Threads :
        /\ t # u
        /\ th[t].pc = "s_emit"
        /\ th[u].pc = "d_body"
        /\ mu = u


\* C36: during a TCP or UDP trace at most one connection is open, a dial
\* attempt that failed has left no connection, and once TraceAddr has
\* returned, with or without an error, no connection of the trace is open.
C36_ConnClosed ==
    proto \in {"tcp", "udp"} =>
        /\ Cardinality(open) <= 1
        /\ \A i \in 1..Len(dials) : ~dials[i].ok => i \notin open
        /\ pc = "done" => open = {}

C36_Witness ==
    /\ proto \in {"tcp", "udp"}
    /\ pc = "done"
    /\ ret = Nil
    /\ Len(dials) = 2
    /\ ~dials[1].ok /\ dials[2].ok
    /\ io.reads = 1
    /\ open = {}


\* the response_end events
EndEvents == SelectSeq(events, LAMBDA e : e.stage = "response_end")

\* an HTTP trace that got its final response and has returned
GotFinalResponse ==
    proto = "http" /\ pc = "done" /\ NumStage("request_do") = 0

\* C37 as stated: bytes_read of response_end is the minimum of the body
\* length and 1024.
C37_Original ==
    GotFinalResponse =>
        /\ Len(EndEvents) = 1
        /\ EndEvents[1].n = Min(srv.body.len, 1024)

\* C37 (amended): after the final response at most 1024 body bytes are read;
\* response_end is emitted once, as the last event of the call, with
\* bytes_read equal to the number of bytes read, which is the minimum of the
\* body length and 1024 unless reading the body fails before; the call
\* returns nil in every case.
C37_BodyRead ==
    GotFinalResponse =>
        /\ Len(EndEvents) = 1
        /\ LastMain.stage = "response_end"
        /\ EndEvents[1].n <= 1024
        /\ EndEvents[1].n = Min(Min(srv.body.len, srv.body.failAt), 1024)
        /\ srv.body.failAt = srv.body.len
              => EndEvents[1].n = Min(srv.body.len, 1024)
        /\ ret = Nil

C37_Witness ==
    /\ GotFinalResponse
    /\ ret = Nil
    /\ srv.body.len = 1025
    /\ srv.body.failAt = 1023
    /\ LastMain.stage = "response_end"
    /\ LastMain.n = 1023


\* C38: every event of an invocation carries the invocation's trace id, which
\* is not empty, and the trace id, once generated, never changes.
C38_OneTraceID ==
    [][/\ \A i \in 1..Len(events') :
             events'[i].trace = traceID' /\ events'[i].trace # 0
       /\ traceID # 0 => traceID' = traceID]_vars

C38_Witness ==
    /\ proto = "http"
    /\ pc = "done"
    /\ NumStage("request_send") = 2
    /\ NumStage("response_headers") = 1
    /\ NumStage("redirect") = 1
    /\ NumStage("request_do") = 1
    /\ \E i \in EventIdx : events[i].by # 0
    /\ \A i \in EventIdx : events[i].trace = traceID


\* the positions of the events of stage st that tracingTransport.RoundTrip
\* emitted for hop h
HopIdx(h, st) == {i \in EventIdx : events[i].stage = st /\ events[i].hop = h}

\* C39: in every state of an HTTP trace each RoundTrip call so far has emitted
\* one request_send and after it at most one of response_headers and
\* request_error; hence #response_headers + #request_error <= #request_send
\* <= #response_headers + #request_error + 1, and #redirect <= #response_headers.
C39_HopCounts ==
    proto = "http" =>
        LET s == NumStage("request_send")
            r == NumStage("response_headers")
            e == NumStage("request_error")
        IN  /\ s = hop
            /\ \A h \in 1..hop :
                  LET out == HopIdx(h, "response_headers") \cup HopIdx(h, "request_error")
                  IN  /\ Cardinality(HopIdx(h, "request_send")) = 1
                      /\ Cardinality(out) <= 1
                      /\ \A i \in HopIdx(h, "request_send") : \A j \in out : i < j
            /\ r + e <= s
            /\ s <= r + e + 1
            /\ NumStage("redirect") <= r

C39_Witness ==
    /\ proto = "http"
    /\ pc = "base"
    /\ hop = 2
    /\ NumStage("request_send") = 2
    /\ NumStage("response_headers") = 1
    /\ NumStage("request_error") = 0
    /\ NumStage("redirect") = 1

\* C17 as stated: every HTTP trace eventually emits its terminal event and
\* returns, whatever the server answers and whatever timeout is configured.
C17_NoHang == <>(pc = "done")

\* with a client timeout, the trace of an endless redirect chain ends
C17_TimeoutEnds == (cfg.Timeout > 0) ~> (pc = "done")

====
